---------------------------- MODULE Spec2Model ----------------------------
(***************************************************************************)
(* Chat bubble rendering pipeline of the ValoML dashboard:                 *)
(*   parseMessageContent  - the regex-driven widget parser                 *)
(*   ProgressBar/StatCard - the enum-keyed lookups of the token renderer   *)
(*   useTypewriter        - the interval-driven character reveal           *)
(*   ChatWidget           - the message store, sendMessage, the bubbles    *)
(*                                                                         *)
(* Strings are sequences of one-character strings.  Indices into strings   *)
(* are JavaScript's: 0-based, slices are half-open.                        *)
(***************************************************************************)
EXTENDS Integers, Sequences, FiniteSets, TLC

VARIABLES
    content,        \* parseMessageContent: the argument
    parts,          \* parseMessageContent: the ParsedContent[] being built
    lastIndex,      \* parseMessageContent: end of the previous match
    pc,             \* parseMessageContent / ChatBubble: position in the pipeline
    rendered,       \* ChatBubble: what each part rendered to
    text,           \* useTypewriter: the text prop
    enabled,        \* useTypewriter: the enabled prop
    displayedText,  \* useTypewriter: React state
    isComplete,     \* useTypewriter: React state
    currentIndex,   \* useTypewriter: the counter in the effect's closure
    effectText,     \* useTypewriter: the text in the effect's closure
    timer,          \* useTypewriter: the interval, "none" | "active" | "cleared"
    phase,          \* TypewriterText: "pending" (rendered, effect not yet run) |
                    \*                 "settled" (effect has run) | "unmounted"
    shown,          \* history: the successive values of displayedText
    changes,        \* number of renders with changed props so far
    interrupted,    \* history: the last change of props came in mid-reveal
    isOpen,         \* ChatWidget: React state
    messages,       \* ChatWidget: React state, the message store
    inputValue,     \* ChatWidget: React state
    isLoading,      \* ChatWidget: React state
    selectedTeam,   \* ChatWidget: React state, a team name or NoTeam
    now,            \* the clock: Date.now()
    fetchState,     \* sendMessage: "idle" | "pending" (awaiting fetch);
                    \*              "unmounted" before ChatWidget exists
    requestBody,    \* sendMessage: the body of the request in flight
    parsedContent,  \* ChatBubble: the results of parseMessageContent that
                    \*   useMemo keeps, by content
    bubbles,        \* the mounted ChatBubbles: per message, per text token,
                    \*   the state of its TypewriterText or its static text
    revealed,       \* history: <<message, token>> whose reveal has completed
    name,           \* AgentIcon: the name prop
    icon,           \* AgentIcon: the glyph it rendered, "unrendered" before
    page,           \* the page the router shows: "ReportContent" | "Versus" |
                    \*   "ReportPage"; "left" after router.push('/')
    searchParams,   \* useSearchParams(): the query of the URL
    inflight,       \* the requests of the page that are awaited
    effectDue,      \* the page has rendered and its fetch effect has not run
    latest,         \* history: the number of requests the page has started
    dataFrom,       \* history: the request whose result the page holds
    loading,        \* ReportContent, VersusPageContent: React state
    error,          \* ReportContent, VersusPageContent: React state
    data,           \* ReportContent, VersusPageContent: React state
    state,          \* ReportPage: React state, "INPUT" | "LOADING" | "RESULT"
    teamInput,      \* ReportPage: React state
    report,         \* ReportPage: React state
    rosterIntel,    \* ReportPage: React state
    loadingError,   \* ReportPage: React state
    reportData,     \* ReportContext: what setReportData stored
    logs,           \* HackerTerminal: React state, the number of lines
    currentLine,    \* HackerTerminal: the counter in the effect's closure
    animComplete,   \* HackerTerminal: React state
    interval,       \* HackerTerminal: "none" | "active" | "cleared"
    timeouts,       \* HackerTerminal: the setTimeout(onComplete, 500) pending
    response,       \* the parsed response of the backend under study
    mapped          \* the report and the roster of each run on it

parserVars == <<content, parts, lastIndex, pc, rendered>>
typewriterVars ==
    <<text, enabled, displayedText, isComplete, currentIndex, effectText, timer,
      phase, shown, changes, interrupted>>
chatVars ==
    <<isOpen, messages, inputValue, isLoading, selectedTeam, now, fetchState,
      requestBody, parsedContent, bubbles, revealed>>
iconVars == <<name, icon>>
routeVars == <<page, searchParams, inflight, effectDue, latest, dataFrom>>
fetchVars == <<loading, error, data>>
reportPageVars ==
    <<state, teamInput, report, rosterIntel, loadingError, reportData, logs,
      currentLine, animComplete, interval, timeouts>>
mappingVars == <<response, mapped>>
\* the components outside the chat window
siteVars == <<iconVars, routeVars, fetchVars, reportPageVars, mappingVars>>
vars == <<content, parts, lastIndex, pc, rendered,
          text, enabled, displayedText, isComplete, currentIndex, effectText, timer,
          phase, shown, changes, interrupted,
          isOpen, messages, inputValue, isLoading, selectedTeam, now,
          fetchState, requestBody, parsedContent, bubbles, revealed,
          name, icon,
          page, searchParams, inflight, effectDue, latest, dataFrom,
          loading, error, data,
          state, teamInput, report, rosterIntel, loadingError, reportData, logs,
          currentLine, animComplete, interval, timeouts,
          response, mapped>>

-----------------------------------------------------------------------------
(* Bounds of the model *)

\* an input of the parser is the concatenation of at most MaxChunks chunks
MaxChunks == 3
\* a typewriter text has at most MaxTextLen characters
MaxTextLen == 2
\* number of times the props of a mounted typewriter may change
MaxPropChanges == 1
\* Date.now() takes the values 0..MaxClock
MaxClock == 1
\* a message is sent only while the store holds fewer than MaxMessages
MaxMessages == 4
\* a long conversation has at most MaxExchanges exchanges before the send
MaxExchanges == 4
\* the requests a page starts during a visit
MaxRequests == 2
\* the runs of the mapping on one response
MaxRuns == 2

-----------------------------------------------------------------------------
(* String helpers (JavaScript semantics) *)

Min(S) == CHOOSE x \in S : \A y \in S : x <= y

\* String.prototype.slice(from, to) for 0 <= from <= to <= length
Slice(s, from, to) == SubSeq(s, from + 1, to)

\* \s of the regular expressions and the white space String.prototype.trim strips
IsWs(c) == c \in {" ", "\n"}

\* \d
Digits == <<"0", "1", "2", "3", "4", "5", "6", "7", "8", "9">>
IsDigit(c) == \E k \in 1..10 : Digits[k] = c
DigitVal(c) == (CHOOSE k \in 1..10 : Digits[k] = c) - 1

\* String.prototype.trim
Trim(s) ==
    LET keep == {k \in 1..Len(s) : ~IsWs(s[k])}
    IN  IF keep = {} THEN <<>>
        ELSE SubSeq(s, Min(keep), CHOOSE k \in keep : \A j \in keep : j <= k)

\* String.prototype.startsWith(lit, i)
StartsWithAt(s, i, lit) ==
    /\ i + Len(lit) <= Len(s)
    /\ Slice(s, i, i + Len(lit)) = lit

\* s[i] = c, false beyond the end
CharIs(s, i, c) == i < Len(s) /\ s[i + 1] = c

\* end of the longest run of white space / digits / non-quotes starting at i
SkipWs(s, i) ==
    IF i >= Len(s) THEN i
    ELSE Min({j \in i..Len(s) : j = Len(s) \/ ~IsWs(s[j + 1])})
SkipDigits(s, i) ==
    IF i >= Len(s) THEN i
    ELSE Min({j \in i..Len(s) : j = Len(s) \/ ~IsDigit(s[j + 1])})
SkipNotQuote(s, i) ==
    IF i >= Len(s) THEN i
    ELSE Min({j \in i..Len(s) : j = Len(s) \/ s[j + 1] = "\""})

\* Number.prototype.toString of a non-negative integer
RECURSIVE ToDigits(_)
ToDigits(n) ==
    IF n < 10 THEN <<Digits[n + 1]>>
    ELSE Append(ToDigits(n \div 10), Digits[(n % 10) + 1])

\* parseInt of a string of decimal digits
RECURSIVE ParseInt(_)
ParseInt(d) ==
    IF d = <<>> THEN 0
    ELSE 10 * ParseInt(SubSeq(d, 1, Len(d) - 1)) + DigitVal(d[Len(d)])

-----------------------------------------------------------------------------
(* Literals of the regular expressions *)

ProgressBarTag ==
    <<"<", "P", "r", "o", "g", "r", "e", "s", "s", "B", "a", "r">>
AgentIconTag ==
    <<"<", "A", "g", "e", "n", "t", "I", "c", "o", "n">>
StatCardTag ==
    <<"<", "S", "t", "a", "t", "C", "a", "r", "d">>
LabelAttr ==
    <<"l", "a", "b", "e", "l", "=", "\"">>
ValueAttr ==
    <<"v", "a", "l", "u", "e", "=">>
ValueQuotedAttr ==
    <<"v", "a", "l", "u", "e", "=", "\"">>
ColorAttr ==
    <<"c", "o", "l", "o", "r", "=", "\"">>
NameAttr ==
    <<"n", "a", "m", "e", "=", "\"">>
TrendAttr ==
    <<"t", "r", "e", "n", "d", "=", "\"">>
SelfClose ==
    <<"/", ">">>

-----------------------------------------------------------------------------
(* The regular expressions of parseMessageContent.  Every quantifier in   *)
(* them is followed by a literal its class excludes, so the backtracking  *)
(* matcher has one way to match and a left-to-right scan finds it.         *)

NoMatch == [found |-> FALSE]

\* [^>]+\/> after a tag name that ends at e: the end of the match, or -1.
\* [^>]+ stops at the first ">", which "/" must precede with at least one
\* character left for the class.
TagTailEnd(s, e) ==
    LET gts == {p \in e..(Len(s) - 1) : s[p + 1] = ">"}
    IN  IF gts = {} THEN -1
        ELSE LET p == Min(gts)
             IN  IF p - 1 >= e + 1 /\ s[p] = "/" THEN p + 1 ELSE -1

\* (<ProgressBar[^>]+\/>|<AgentIcon[^>]+\/>|<StatCard[^>]+\/>) tried at index i
CombinedMatchEnd(s, i) ==
    IF StartsWithAt(s, i, ProgressBarTag) THEN TagTailEnd(s, i + Len(ProgressBarTag))
    ELSE IF StartsWithAt(s, i, AgentIconTag) THEN TagTailEnd(s, i + Len(AgentIconTag))
    ELSE IF StartsWithAt(s, i, StatCardTag) THEN TagTailEnd(s, i + Len(StatCardTag))
    ELSE -1

\* combinedPattern.exec(content) with combinedPattern.lastIndex = from
CombinedExec(s, from) ==
    LET starts == {i \in from..(Len(s) - 1) : CombinedMatchEnd(s, i) # -1}
    IN  IF starts = {} THEN NoMatch
        ELSE LET i == Min(starts)
             IN  [found |-> TRUE, index |-> i, end |-> CombinedMatchEnd(s, i)]

\* (?:attr="([^"]+)")? at index m: where it ends and what it captured
\* (<<>> when the group did not take part in the match)
OptionalAttr(s, m, attr) ==
    LET c == m + Len(attr)
        d == SkipNotQuote(s, c)
    IN  IF StartsWithAt(s, m, attr) /\ d > c /\ CharIs(s, d, "\"")
        THEN [end |-> d + 1, capture |-> Slice(s, c, d)]
        ELSE [end |-> m, capture |-> <<>>]

\* /<ProgressBar\s+label="([^"]+)"\s+value=\{?(\d+)\}?\s*(?:color="([^"]+)")?\s*\/>/
\* tried at index i
ProgressMatchAt(s, i) ==
    LET a == i + Len(ProgressBarTag)
        b == SkipWs(s, a)
        c == b + Len(LabelAttr)
        d == SkipNotQuote(s, c)
        f == SkipWs(s, d + 1)
        g == f + Len(ValueAttr)
        h == IF CharIs(s, g, "{") THEN g + 1 ELSE g
        k == SkipDigits(s, h)
        l == IF CharIs(s, k, "}") THEN k + 1 ELSE k
        opt == OptionalAttr(s, SkipWs(s, l), ColorAttr)
        z == SkipWs(s, opt.end)
    IN  IF /\ StartsWithAt(s, i, ProgressBarTag)
           /\ b > a
           /\ StartsWithAt(s, b, LabelAttr)
           /\ d > c
           /\ CharIs(s, d, "\"")
           /\ f > d + 1
           /\ StartsWithAt(s, f, ValueAttr)
           /\ k > h
           /\ StartsWithAt(s, z, SelfClose)
        THEN [found |-> TRUE, index |-> i, end |-> z + Len(SelfClose),
              g1 |-> Slice(s, c, d), g2 |-> Slice(s, h, k), g3 |-> opt.capture]
        ELSE NoMatch

\* /<AgentIcon\s+name="([^"]+)"\s*\/>/ tried at index i
AgentMatchAt(s, i) ==
    LET a == i + Len(AgentIconTag)
        b == SkipWs(s, a)
        c == b + Len(NameAttr)
        d == SkipNotQuote(s, c)
        z == SkipWs(s, d + 1)
    IN  IF /\ StartsWithAt(s, i, AgentIconTag)
           /\ b > a
           /\ StartsWithAt(s, b, NameAttr)
           /\ d > c
           /\ CharIs(s, d, "\"")
           /\ StartsWithAt(s, z, SelfClose)
        THEN [found |-> TRUE, index |-> i, end |-> z + Len(SelfClose),
              g1 |-> Slice(s, c, d)]
        ELSE NoMatch

\* /<StatCard\s+label="([^"]+)"\s+value="([^"]+)"\s*(?:trend="([^"]+)")?\s*\/>/
\* tried at index i
StatMatchAt(s, i) ==
    LET a == i + Len(StatCardTag)
        b == SkipWs(s, a)
        c == b + Len(LabelAttr)
        d == SkipNotQuote(s, c)
        f == SkipWs(s, d + 1)
        g == f + Len(ValueQuotedAttr)
        h == SkipNotQuote(s, g)
        opt == OptionalAttr(s, SkipWs(s, h + 1), TrendAttr)
        z == SkipWs(s, opt.end)
    IN  IF /\ StartsWithAt(s, i, StatCardTag)
           /\ b > a
           /\ StartsWithAt(s, b, LabelAttr)
           /\ d > c
           /\ CharIs(s, d, "\"")
           /\ f > d + 1
           /\ StartsWithAt(s, f, ValueQuotedAttr)
           /\ h > g
           /\ CharIs(s, h, "\"")
           /\ StartsWithAt(s, z, SelfClose)
        THEN [found |-> TRUE, index |-> i, end |-> z + Len(SelfClose),
              g1 |-> Slice(s, c, d), g2 |-> Slice(s, g, h), g3 |-> opt.capture]
        ELSE NoMatch

\* RegExp.prototype.exec of a pattern without the g flag: the match at the
\* least index where the pattern matches
ProgressExec(s) ==
    LET starts == {i \in 0..(Len(s) - 1) : ProgressMatchAt(s, i).found}
    IN  IF starts = {} THEN NoMatch ELSE ProgressMatchAt(s, Min(starts))

AgentExec(s) ==
    LET starts == {i \in 0..(Len(s) - 1) : AgentMatchAt(s, i).found}
    IN  IF starts = {} THEN NoMatch ELSE AgentMatchAt(s, Min(starts))

StatExec(s) ==
    LET starts == {i \in 0..(Len(s) - 1) : StatMatchAt(s, i).found}
    IN  IF starts = {} THEN NoMatch ELSE StatMatchAt(s, Min(starts))

-----------------------------------------------------------------------------
(* parseMessageContent *)

TextToken(t) == [type |-> "text", content |-> t]

\* case 'text' of the renderer's switch
IsTextToken(tok) == tok.type = "text"

\* prMatch[3] || 'red', stMatch[3] || 'neutral'
OrDefault(capture, default) == IF capture = <<>> THEN default ELSE capture

DefaultColor == <<"r", "e", "d">>
DefaultTrend == <<"n", "e", "u", "t", "r", "a", "l">>

\* "Parse specific widget": the tokens (none or one) pushed for a match of
\* the combined pattern
WidgetTokens(widgetStr) ==
    IF StartsWithAt(widgetStr, 0, ProgressBarTag) THEN
        LET prMatch == ProgressExec(widgetStr)
        IN  IF prMatch.found
            THEN << [type |-> "progress", content |-> <<>>,
                     props |-> [label |-> prMatch.g1,
                                value |-> ParseInt(prMatch.g2),
                                color |-> OrDefault(prMatch.g3, DefaultColor)]] >>
            ELSE <<>>
    ELSE IF StartsWithAt(widgetStr, 0, AgentIconTag) THEN
        LET agMatch == AgentExec(widgetStr)
        IN  IF agMatch.found
            THEN << [type |-> "agent", content |-> <<>>,
                     props |-> [name |-> agMatch.g1]] >>
            ELSE <<>>
    ELSE IF StartsWithAt(widgetStr, 0, StatCardTag) THEN
        LET stMatch == StatExec(widgetStr)
        IN  IF stMatch.found
            THEN << [type |-> "stat", content |-> <<>>,
                     props |-> [label |-> stMatch.g1,
                                value |-> stMatch.g2,
                                trend |-> OrDefault(stMatch.g3, DefaultTrend)]] >>
            ELSE <<>>
    ELSE <<>>

\* "Add text before this match"
TextBefore(s, ps, last, index) ==
    LET textContent == Trim(Slice(s, last, index))
    IN  IF index > last /\ textContent # <<>>
        THEN Append(ps, TextToken(textContent))
        ELSE ps

\* one iteration of the while loop, for the match m
LoopBody(s, ps, last, m) ==
    [parts |-> TextBefore(s, ps, last, m.index) \o WidgetTokens(Slice(s, m.index, m.end)),
     lastIndex |-> m.end]

\* "Add remaining text"
RemainingText(s, ps, last) ==
    LET remainingText == Trim(Slice(s, last, Len(s)))
    IN  IF last < Len(s) /\ remainingText # <<>>
        THEN Append(ps, TextToken(remainingText))
        ELSE ps

\* mutant: the fallback forgotten
FallbackDropped(s, ps) == ps

\* "If no widgets found, return entire content as text"
Fallback(s, ps) == IF Len(ps) = 0 THEN <<TextToken(s)>> ELSE ps

\* the statements after the while loop
AfterLoop(s, ps, last) == Fallback(s, RemainingText(s, ps, last))

\* the function as a whole
RECURSIVE ParseLoop(_, _, _)
ParseLoop(s, ps, last) ==
    LET m == CombinedExec(s, last)
    IN  IF m.found
        THEN LET st == LoopBody(s, ps, last, m)
             IN  ParseLoop(s, st.parts, st.lastIndex)
        ELSE AfterLoop(s, ps, last)

ParseMessageContent(s) == ParseLoop(s, <<>>, 0)

-----------------------------------------------------------------------------
(* ProgressBar, StatCard: the lookups keyed by an enum prop *)

ColorSchemeKeys ==
    { <<"r", "e", "d">>, <<"c", "y", "a", "n">>, <<"g", "r", "e", "e", "n">>,
      <<"o", "r", "a", "n", "g", "e">>, <<"v", "i", "o", "l", "e", "t">> }

TrendColorKeys ==
    { <<"u", "p">>, <<"d", "o", "w", "n">>, <<"n", "e", "u", "t", "r", "a", "l">> }

\* colorSchemes[color]; scheme.text of an undefined scheme throws
ProgressBar(props) ==
    IF props.color \in ColorSchemeKeys
    THEN [widget |-> "ProgressBar", width |-> props.value, scheme |-> props.color]
    ELSE [widget |-> "TypeError"]

\* trendColors[trend]: an unknown trend puts "undefined" in the class name
StatCard(props) ==
    [widget |-> "StatCard",
     trendColor |-> IF props.trend \in TrendColorKeys THEN props.trend
                    ELSE <<"u", "n", "d", "e", "f", "i", "n", "e", "d">>]

\* ChatBubble: parsedContent.map
RenderPart(part) ==
    CASE part.type = "progress" -> ProgressBar(part.props)
      [] part.type = "agent" -> [widget |-> "AgentIcon", name |-> part.props.name]
      [] part.type = "stat" -> StatCard(part.props)
      [] OTHER -> [widget |-> "span", text |-> part.content]

-----------------------------------------------------------------------------
(* Messages given to the parser: concatenations of at most MaxChunks of    *)
(* the chunks below, and scenario A of the specification                   *)

TagProgressFull ==
    <<"<", "P", "r", "o", "g", "r", "e", "s", "s", "B", "a", "r", " ", "l", "a", "b", "e", "l", "=", "\"", "E", "\"", " ", "v", "a", "l", "u", "e", "=", "{", "7", "2", "}", " ", "c", "o", "l", "o", "r", "=", "\"", "r", "e", "d", "\"", " ", "/", ">">>
TagProgressBare ==
    <<"<", "P", "r", "o", "g", "r", "e", "s", "s", "B", "a", "r", " ", "l", "a", "b", "e", "l", "=", "\"", "E", "\"", " ", "v", "a", "l", "u", "e", "=", "1", "5", "0", "/", ">">>
TagProgressBlue ==
    <<"<", "P", "r", "o", "g", "r", "e", "s", "s", "B", "a", "r", " ", "l", "a", "b", "e", "l", "=", "\"", "E", "\"", " ", "v", "a", "l", "u", "e", "=", "{", "5", "}", " ", "c", "o", "l", "o", "r", "=", "\"", "b", "l", "u", "e", "\"", " ", "/", ">">>
TagAgent ==
    <<"<", "A", "g", "e", "n", "t", "I", "c", "o", "n", " ", "n", "a", "m", "e", "=", "\"", "J", "e", "t", "t", "\"", " ", "/", ">">>
TagAgentGt ==
    <<"<", "A", "g", "e", "n", "t", "I", "c", "o", "n", " ", "n", "a", "m", "e", "=", "\"", "a", ">", "b", "\"", " ", "/", ">">>
TagAgentClose ==
    <<"<", "A", "g", "e", "n", "t", "I", "c", "o", "n", " ", "n", "a", "m", "e", "=", "\"", "a", "/", ">", "b", "\"", " ", "/", ">">>
TagStatFull ==
    <<"<", "S", "t", "a", "t", "C", "a", "r", "d", " ", "l", "a", "b", "e", "l", "=", "\"", "K", "\"", " ", "v", "a", "l", "u", "e", "=", "\"", "9", "\"", " ", "t", "r", "e", "n", "d", "=", "\"", "u", "p", "\"", " ", "/", ">">>
TagStatBare ==
    <<"<", "S", "t", "a", "t", "C", "a", "r", "d", " ", "l", "a", "b", "e", "l", "=", "\"", "K", "\"", " ", "v", "a", "l", "u", "e", "=", "\"", "9", "\"", " ", "/", ">">>
TagStatFlat ==
    <<"<", "S", "t", "a", "t", "C", "a", "r", "d", " ", "l", "a", "b", "e", "l", "=", "\"", "K", "\"", " ", "v", "a", "l", "u", "e", "=", "\"", "9", "\"", " ", "t", "r", "e", "n", "d", "=", "\"", "f", "l", "a", "t", "\"", " ", "/", ">">>
TagMalformed ==
    <<"<", "P", "r", "o", "g", "r", "e", "s", "s", "B", "a", "r", " ", "f", "o", "o", " ", "/", ">">>
TagUnknown ==
    <<"<", "F", "o", "o", " ", "b", "a", "r", "=", "\"", "1", "\"", " ", "/", ">">>
ScenarioA ==
    <<"W", "e", "a", "k", "n", "e", "s", "s", " ", "s", "c", "o", "r", "e", " ", "i", "s", " ", "<", "P", "r", "o", "g", "r", "e", "s", "s", "B", "a", "r", " ", "l", "a", "b", "e", "l", "=", "\"", "E", "x", "p", "l", "o", "i", "t", "\"", " ", "v", "a", "l", "u", "e", "=", "{", "7", "2", "}", " ", "c", "o", "l", "o", "r", "=", "\"", "r", "e", "d", "\"", " ", "/", ">", ".", " ", "W", "a", "t", "c", "h", " ", "t", "h", "e", "i", "r", " ", "<", "A", "g", "e", "n", "t", "I", "c", "o", "n", " ", "n", "a", "m", "e", "=", "\"", "J", "e", "t", "t", "\"", " ", "/", ">", " ", "p", "l", "a", "y", "e", "r", ".">>
ScenarioAText1 ==
    <<"W", "e", "a", "k", "n", "e", "s", "s", " ", "s", "c", "o", "r", "e", " ", "i", "s">>
ScenarioAText2 ==
    <<".", " ", "W", "a", "t", "c", "h", " ", "t", "h", "e", "i", "r">>
ScenarioAText3 ==
    <<"p", "l", "a", "y", "e", "r", ".">>
Exploit ==
    <<"E", "x", "p", "l", "o", "i", "t">>
Jett ==
    <<"J", "e", "t", "t">>
Red ==
    <<"r", "e", "d">>
Neutral ==
    <<"n", "e", "u", "t", "r", "a", "l">>

Chunks ==
    { <<"a">>, <<" ">>, ProgressBarTag,
      TagProgressFull, TagProgressBare, TagProgressBlue,
      TagAgent, TagAgentGt, TagAgentClose,
      TagStatFull, TagStatBare, TagStatFlat,
      TagMalformed, TagUnknown }

RECURSIVE Concats(_)
Concats(n) ==
    IF n = 0 THEN {<<>>}
    ELSE LET shorter == Concats(n - 1)
         IN  shorter \cup {p \o c : p \in shorter, c \in Chunks}

Inputs == Concats(MaxChunks) \cup {ScenarioA}

-----------------------------------------------------------------------------
(* The parser and the renderer as a state machine *)

\* useState<Team | null>(null)
NoTeam == "null"

\* no request in flight
NoRequest == [message |-> <<>>, history |-> <<>>]

\* no AgentIcon is part of the run
NoIcon == "none"
IconOff == name = <<>> /\ icon = NoIcon

\* searchParams.get(key) of a key the URL does not have
NoParam == "null"
NoQuery == [team |-> NoParam, team1 |-> NoParam, team2 |-> NoParam, opponent |-> NoParam]

\* no page is part of the run
RouteOff ==
    /\ page = "none"
    /\ searchParams = NoQuery
    /\ inflight = {}
    /\ effectDue = FALSE
    /\ latest = 0
    /\ dataFrom = 0

\* useState(null) of data
NoData == [of |-> <<>>, source |-> "none"]
\* useState(null) of error on the versus page and of loadingError
NoError == "null"

\* neither ReportContent nor VersusPageContent is part of the run
FetchOff ==
    /\ loading = FALSE
    /\ error = ""
    /\ data = NoData

\* useState(null) of report
NoReport == [present |-> FALSE]
\* the report context before any report
NoContext == [hasReport |-> FALSE, team_name |-> <<>>]

\* ReportPage is not part of the run
ReportPageOff ==
    /\ state = "INPUT"
    /\ teamInput = ""
    /\ report = NoReport
    /\ rosterIntel = <<>>
    /\ loadingError = NoError
    /\ reportData = NoContext
    /\ logs = 0
    /\ currentLine = 0
    /\ animComplete = FALSE
    /\ interval = "none"
    /\ timeouts = 0

\* no response is under study
NoResponse == [ok |-> FALSE]
MappingOff ==
    /\ response = NoResponse
    /\ mapped = <<>>

\* the components outside the chat window are not part of the run
SiteOff == IconOff /\ RouteOff /\ FetchOff /\ ReportPageOff /\ MappingOff

\* ChatWidget is not part of the run
ChatOff ==
    /\ isOpen = FALSE
    /\ messages = <<>>
    /\ inputValue = <<>>
    /\ isLoading = FALSE
    /\ selectedTeam = NoTeam
    /\ now = 0
    /\ fetchState = "unmounted"
    /\ requestBody = NoRequest
    /\ parsedContent = <<>>
    /\ bubbles = <<>>
    /\ revealed = {}

TypewriterOff ==
    /\ text = <<>>
    /\ enabled = FALSE
    /\ displayedText = <<>>
    /\ isComplete = FALSE
    /\ currentIndex = 0
    /\ effectText = <<>>
    /\ timer = "none"
    /\ phase = "unmounted"
    /\ shown = <<>>
    /\ changes = 0
    /\ interrupted = FALSE

Init ==
    /\ content \in Inputs
    /\ parts = <<>>
    /\ lastIndex = 0
    /\ pc = "loop"
    /\ rendered = <<>>
    /\ TypewriterOff
    /\ ChatOff
    /\ SiteOff

\* while ((match = combinedPattern.exec(content)) !== null) { ... }
ExecMatch ==
    /\ pc = "loop"
    /\ LET match == CombinedExec(content, lastIndex)
       IN  /\ match.found
           /\ LET st == LoopBody(content, parts, lastIndex, match)
              IN  /\ parts' = st.parts
                  /\ lastIndex' = st.lastIndex
    /\ UNCHANGED <<content, pc, rendered>>
    /\ UNCHANGED typewriterVars
    /\ UNCHANGED chatVars
    /\ UNCHANGED siteVars

\* exec returns null: the statements after the loop, and the return
Return ==
    /\ pc = "loop"
    /\ ~CombinedExec(content, lastIndex).found
    /\ parts' = AfterLoop(content, parts, lastIndex)
    /\ pc' = "returned"
    /\ UNCHANGED <<content, lastIndex, rendered>>
    /\ UNCHANGED typewriterVars
    /\ UNCHANGED chatVars
    /\ UNCHANGED siteVars

\* ChatBubble renders the parts of a message that is not animated
Render ==
    /\ pc = "returned"
    /\ rendered' = [k \in 1..Len(parts) |-> RenderPart(parts[k])]
    /\ pc' = "rendered"
    /\ UNCHANGED <<content, parts, lastIndex>>
    /\ UNCHANGED typewriterVars
    /\ UNCHANGED chatVars
    /\ UNCHANGED siteVars

Next == ExecMatch \/ Return \/ Render

Spec == Init /\ [][Next]_vars

-----------------------------------------------------------------------------
(* useTypewriter as a state machine: one TypewriterText component from its *)
(* first render to its unmount                                             *)

Alphabet == {"a", "b"}

RECURSIVE StringsUpTo(_)
StringsUpTo(n) ==
    IF n = 0 THEN {<<>>}
    ELSE LET shorter == StringsUpTo(n - 1)
         IN  shorter \cup {Append(p, c) : p \in shorter, c \in Alphabet}

Texts == StringsUpTo(MaxTextLen)

ParserOff ==
    /\ content = <<>>
    /\ parts = <<>>
    /\ lastIndex = 0
    /\ pc = "off"
    /\ rendered = <<>>

\* setDisplayedText: the history of the values the state took
Show(history, value) ==
    IF history[Len(history)] = value THEN history ELSE Append(history, value)

\* first render: useState(''), useState(false); the effect is pending
TypewriterInit ==
    /\ ParserOff
    /\ ChatOff
    /\ SiteOff
    /\ text \in Texts
    /\ enabled \in BOOLEAN
    /\ displayedText = <<>>
    /\ isComplete = FALSE
    /\ currentIndex = 0
    /\ effectText = <<>>
    /\ timer = "none"
    /\ phase = "pending"
    /\ shown = << <<>> >>
    /\ changes = 0
    /\ interrupted = FALSE

\* mutant: the effect returns no cleanup
CleanupMissing(t) == t

\* the cleanup of the previous effect: clearInterval(intervalId)
Cleanup(t) == IF t = "active" THEN "cleared" ELSE t

\* mutant: the counter outlives the effect it was declared in
EffectStartStale(i) ==
    [displayedText |-> <<>>, isComplete |-> FALSE, currentIndex |-> i]

\* setDisplayedText(''); setIsComplete(false); let currentIndex = 0
EffectStart(i) ==
    [displayedText |-> <<>>, isComplete |-> FALSE, currentIndex |-> 0]

\* the effect body, after the cleanup of the effect it replaces
RunEffect ==
    /\ phase = "pending"
    /\ phase' = "settled"
    /\ effectText' = text
    /\ IF ~enabled
       THEN /\ displayedText' = text
            /\ isComplete' = TRUE
            /\ timer' = Cleanup(timer)
            /\ UNCHANGED currentIndex
       ELSE LET r == EffectStart(currentIndex)
            IN  /\ displayedText' = r.displayedText
                /\ isComplete' = r.isComplete
                /\ currentIndex' = r.currentIndex
                /\ timer' = "active"
    /\ shown' = Show(shown, displayedText')
    /\ UNCHANGED <<text, enabled, changes, interrupted>>
    /\ UNCHANGED parserVars
    /\ UNCHANGED chatVars
    /\ UNCHANGED siteVars

\* mutant: the callback forgets its counter
TickRevealStuck(t, i) == [displayedText |-> Slice(t, 0, i + 1), currentIndex |-> i]

\* mutant: the slice ends one character early
TickRevealLagging(t, i) == [displayedText |-> Slice(t, 0, i), currentIndex |-> i + 1]

\* the string and the index one callback of the interval leaves behind
TickReveal(t, i) == [displayedText |-> Slice(t, 0, i + 1), currentIndex |-> i + 1]

\* mutant: the interval is left running on completion
TickFinishLeaking(t) == [isComplete |-> TRUE, timer |-> t]

\* setIsComplete(true); clearInterval(intervalId)
TickFinish(t) == [isComplete |-> TRUE, timer |-> "cleared"]

\* the setInterval callback
Tick ==
    /\ timer = "active"
    /\ IF currentIndex < Len(effectText)
       THEN LET r == TickReveal(effectText, currentIndex)
            IN  /\ displayedText' = r.displayedText
                /\ currentIndex' = r.currentIndex
                /\ UNCHANGED <<isComplete, timer>>
       ELSE LET f == TickFinish(timer)
            IN  /\ isComplete' = f.isComplete
                /\ timer' = f.timer
                /\ UNCHANGED <<displayedText, currentIndex>>
    /\ shown' = Show(shown, displayedText')
    /\ UNCHANGED <<text, enabled, effectText, phase, changes, interrupted>>
    /\ UNCHANGED parserVars
    /\ UNCHANGED chatVars
    /\ UNCHANGED siteVars

\* a render with another text or enabled flag: the dependencies of the
\* effect changed, so its cleanup and the effect run after the commit
ChangeProps ==
    /\ phase = "settled"
    /\ changes < MaxPropChanges
    /\ \E t \in Texts, e \in BOOLEAN :
        /\ <<t, e>> # <<text, enabled>>
        /\ text' = t
        /\ enabled' = e
    /\ phase' = "pending"
    /\ changes' = changes + 1
    /\ interrupted' = (enabled /\ timer = "active" /\ 0 < currentIndex
                                /\ currentIndex < Len(effectText))
    /\ UNCHANGED <<displayedText, isComplete, currentIndex, effectText, timer, shown>>
    /\ UNCHANGED parserVars
    /\ UNCHANGED chatVars
    /\ UNCHANGED siteVars

\* the component unmounts: the cleanup of the last effect runs
Unmount ==
    /\ phase \in {"pending", "settled"}
    /\ phase' = "unmounted"
    /\ timer' = Cleanup(timer)
    /\ UNCHANGED <<text, enabled, displayedText, isComplete, currentIndex,
                   effectText, shown, changes, interrupted>>
    /\ UNCHANGED parserVars
    /\ UNCHANGED chatVars
    /\ UNCHANGED siteVars

TypewriterNext == RunEffect \/ Tick \/ ChangeProps \/ Unmount

SpecTypewriter == TypewriterInit /\ [][TypewriterNext]_vars

\* React runs a pending effect after the commit, and a running interval
\* keeps calling its callback: neither step is postponed forever.  Changes
\* of props and the unmount are up to the parent and carry no fairness.
SpecTypewriterFair ==
    /\ TypewriterInit
    /\ [][TypewriterNext]_vars
    /\ WF_vars(RunEffect)
    /\ WF_vars(Tick)

-----------------------------------------------------------------------------
(* ChatWidget: the message store, sendMessage and the bubbles it renders.  *)
(* A handler and the render it causes are one step.  The welcome effect   *)
(* is a step of its own, which React takes before it handles anything     *)
(* else: no other step is enabled while it is due.  The two ends of the    *)
(* await in sendMessage are two steps.                                      *)

\* TEAMS: one of the eight suffices, a team is used by its name only
Teams == {"Sentinels"}

\* The texts of the messages.  Only their identity, their length and the
\* tokens they parse to matter to the store: each literal of the source is
\* stood for by a short text without markup, as the literal itself is.
WelcomeText(team) ==
    IF team = NoTeam THEN <<"w">> ELSE <<"S">>
ErrorText == <<"E">>
\* what the user types or the prompt of a chip
UserTexts == {<<"q">>}
\* the values of the input field
InputValues == {<<>>, <<" ">>, <<"q">>}
\* data.response: a widget tag between two texts
ResponseTexts == {<<"a">> \o TagAgent \o <<"b">>}

WelcomeId == <<"w", "e", "l", "c", "o", "m", "e">>

WelcomeMessage(team, t) ==
    [id |-> WelcomeId, role |-> "assistant", content |-> WelcomeText(team),
     timestamp |-> t, isNew |-> TRUE]

UserMessage(txt, t) ==
    [id |-> ToDigits(t), role |-> "user", content |-> txt,
     timestamp |-> t, isNew |-> TRUE]

\* assistantMessage and errorMessage
AssistantMessage(txt, t) ==
    [id |-> ToDigits(t + 1), role |-> "assistant", content |-> txt,
     timestamp |-> t, isNew |-> TRUE]

\* prev.map(m => ({ ...m, isNew: false }))
MarkOld(prev) == [k \in 1..Len(prev) |-> [prev[k] EXCEPT !.isNew = FALSE]]

\* mutant: the new message replaces the store
AppendMessageAlone(prev, m) == <<m>>

\* [...prev, m]
AppendMessage(prev, m) == Append(prev, m)

\* mutant: only an empty text is refused
SendRejectedEmptyOnly(txt, busy) == txt = <<>>

\* if (!text || isLoading) return
SendRejected(txt, busy) == txt = <<>> \/ busy

\* mutant: the flag is left as it is
FinallySkipped(busy) == busy

\* finally { setIsLoading(false) }: the value of isLoading after the request
Finally(busy) == FALSE

\* mutant: the first six messages
BuildHistoryContextOldest(msgs) ==
    LET recent == SubSeq(msgs, 1, IF Len(msgs) > 6 THEN 6 ELSE Len(msgs))
    IN  [k \in 1..Len(recent) |-> [role |-> recent[k].role, content |-> recent[k].content]]

\* messages.slice(-6).map(m => ({ role: m.role, content: m.content }))
BuildHistoryContext(msgs) ==
    LET recent == SubSeq(msgs, IF Len(msgs) > 6 THEN Len(msgs) - 5 ELSE 1, Len(msgs))
    IN  [k \in 1..Len(recent) |-> [role |-> recent[k].role, content |-> recent[k].content]]

\* mutant: every fresh message is animated, whoever wrote it
ShouldTypewriteAnyRole(role, isNew) == isNew

\* const shouldTypewrite = isBot && isNew
ShouldTypewrite(role, isNew) == role = "assistant" /\ isNew

\* a TypewriterText just mounted with enabled = true, its effect run
StartReveal(t) ==
    [animated |-> TRUE, text |-> t, displayedText |-> <<>>, currentIndex |-> 0,
     isComplete |-> FALSE, timer |-> "active"]

\* {part.content}: the text rendered as it is
StaticText(t) ==
    [animated |-> FALSE, text |-> t, displayedText |-> t, currentIndex |-> 0,
     isComplete |-> TRUE, timer |-> "none"]

\* the contents a message of the store can have
Contents ==
    {WelcomeText(team) : team \in Teams \cup {NoTeam}} \cup {ErrorText}
        \cup UserTexts \cup ({Trim(v) : v \in InputValues} \ {<<>>}) \cup ResponseTexts

\* the contents of the text tokens of a message, in order
TextParts(c) ==
    LET ps == SelectSeq(parsedContent[c], IsTextToken)
    IN  [k \in 1..Len(ps) |-> ps[k].content]

\* a ChatBubble mounts: every text token animated or static
MountBubble(m) ==
    LET ts == TextParts(m.content)
    IN  [k \in 1..Len(ts) |->
            IF ShouldTypewrite(m.role, m.isNew) THEN StartReveal(ts[k]) ELSE StaticText(ts[k])]

\* a mounted ChatBubble renders again: a token that changes between
\* TypewriterText and plain text is another element, the old one unmounts
\* (its cleanup clears the interval)
RerenderBubble(b, m) ==
    [k \in 1..Len(b) |->
        IF b[k].animated = ShouldTypewrite(m.role, m.isNew) THEN b[k]
        ELSE IF b[k].animated THEN StaticText(b[k].text) ELSE StartReveal(b[k].text)]

\* {isOpen && ... messages.map(message => <ChatBubble .../>)}: the bubbles
\* after a render, old the bubbles that stay mounted across it
RenderBubbles(old, msgs, open) ==
    IF ~open THEN <<>>
    ELSE [i \in 1..Len(msgs) |->
            IF i <= Len(old) THEN RerenderBubble(old[i], msgs[i]) ELSE MountBubble(msgs[i])]

\* mutant: one counter shared by the tokens of a bubble
TickBubbleShared(b, k) ==
    [j \in 1..Len(b) |->
        IF b[j].timer # "active" THEN b[j]
        ELSE IF b[j].currentIndex < Len(b[j].text)
        THEN LET r == TickReveal(b[j].text, b[j].currentIndex)
             IN  [b[j] EXCEPT !.displayedText = r.displayedText,
                              !.currentIndex = r.currentIndex]
        ELSE LET f == TickFinish(b[j].timer)
             IN  [b[j] EXCEPT !.isComplete = f.isComplete, !.timer = f.timer]]

\* the interval callback of token k of a bubble: it works on the state and
\* the closure of its own useTypewriter call
TickBubble(b, k) ==
    [b EXCEPT ![k] =
        IF b[k].currentIndex < Len(b[k].text)
        THEN LET r == TickReveal(b[k].text, b[k].currentIndex)
             IN  [b[k] EXCEPT !.displayedText = r.displayedText,
                              !.currentIndex = r.currentIndex]
        ELSE LET f == TickFinish(b[k].timer)
             IN  [b[k] EXCEPT !.isComplete = f.isComplete, !.timer = f.timer]]

\* the tokens whose reveal is complete
Completed(bs) ==
    {ik \in {<<i, k>> : i \in 1..Len(bs), k \in 1..2} :
        /\ ik[2] <= Len(bs[ik[1]])
        /\ bs[ik[1]][ik[2]].animated
        /\ bs[ik[1]][ik[2]].isComplete}

\* ChatWidget mounts: the useState initial values
ChatInit ==
    /\ ParserOff
    /\ TypewriterOff
    /\ SiteOff
    /\ isOpen = FALSE
    /\ messages = <<>>
    /\ inputValue = <<>>
    /\ isLoading = FALSE
    /\ selectedTeam = NoTeam
    /\ now = 0
    /\ fetchState = "idle"
    /\ requestBody = NoRequest
    \* useMemo(() => parseMessageContent(content), [content])
    /\ parsedContent = [c \in Contents |-> ParseMessageContent(c)]
    /\ bubbles = <<>>
    /\ revealed = {}

Mounted == fetchState # "unmounted"

\* if (isOpen && messages.length === 0): the welcome effect is due
WelcomeDue == isOpen /\ Len(messages) = 0

\* ChatWidget is mounted and no effect is due: events are handled
Ready == Mounted /\ ~WelcomeDue

\* the welcome effect: setMessages([welcomeMessage])
Welcome ==
    /\ Mounted
    /\ WelcomeDue
    /\ messages' = <<WelcomeMessage(selectedTeam, now)>>
    /\ bubbles' = RenderBubbles(bubbles, messages', isOpen)
    /\ revealed' = revealed \cup Completed(bubbles')
    /\ UNCHANGED <<isOpen, inputValue, isLoading, selectedTeam, now, fetchState,
                   requestBody, parsedContent>>
    /\ UNCHANGED <<parserVars, typewriterVars, siteVars>>

\* time passes
Advance ==
    /\ Mounted
    /\ now < MaxClock
    /\ now' = now + 1
    /\ UNCHANGED <<isOpen, messages, inputValue, isLoading, selectedTeam,
                   fetchState, requestBody, bubbles, revealed,
                   parsedContent>>
    /\ UNCHANGED <<parserVars, typewriterVars, siteVars>>

\* the floating button: setIsOpen(!isOpen); closing unmounts the window and
\* its bubbles, opening mounts them
ToggleOpen ==
    /\ Ready
    /\ isOpen' = ~isOpen
    /\ bubbles' = RenderBubbles(<<>>, messages, isOpen')
    /\ revealed' = revealed \cup Completed(bubbles')
    /\ UNCHANGED <<messages, inputValue, isLoading, selectedTeam, now, fetchState,
                   requestBody,
                   parsedContent>>
    /\ UNCHANGED <<parserVars, typewriterVars, siteVars>>

\* onChange of the input, which is disabled while loading
TypeInput ==
    /\ Ready
    /\ isOpen
    /\ ~isLoading
    /\ \E v \in InputValues : v # inputValue /\ inputValue' = v
    /\ UNCHANGED <<isOpen, messages, isLoading, selectedTeam, now, fetchState,
                   requestBody, bubbles, revealed,
                   parsedContent>>
    /\ UNCHANGED <<parserVars, typewriterVars, siteVars>>

\* sendMessage(messageText) from its guard to the body of the request: what
\* it does to the store, the input and the flag
SendAccepted(messageText) ==
    LET txt == IF messageText # <<>> THEN messageText ELSE Trim(inputValue)
    IN  /\ ~SendRejected(txt, isLoading)
        /\ messages' = AppendMessage(MarkOld(messages), UserMessage(txt, now))
        /\ requestBody' = [message |-> txt, history |-> BuildHistoryContext(messages)]
        /\ inputValue' = <<>>
        /\ isLoading' = TRUE

\* sendMessage up to the await of fetch: called with the prompt of a chip,
\* or without argument by Enter and by the send button
SendMessage ==
    /\ Ready
    /\ isOpen
    /\ Len(messages) < MaxMessages
    /\ \E messageText \in UserTexts \cup {<<>>} : SendAccepted(messageText)
    /\ fetchState' = "pending"
    /\ bubbles' = RenderBubbles(bubbles, messages', isOpen)
    /\ revealed' = revealed \cup Completed(bubbles')
    /\ UNCHANGED <<isOpen, selectedTeam, now,
                   parsedContent>>
    /\ UNCHANGED <<parserVars, typewriterVars, siteVars>>

\* sendMessage after the await: the response is ok and parsed
ResponseArrives ==
    /\ Ready
    /\ fetchState = "pending"
    /\ \E c \in ResponseTexts :
        messages' = AppendMessage(messages, AssistantMessage(c, now))
    /\ isLoading' = Finally(isLoading)
    /\ fetchState' = "idle"
    /\ requestBody' = NoRequest
    /\ bubbles' = RenderBubbles(bubbles, messages', isOpen)
    /\ revealed' = revealed \cup Completed(bubbles')
    /\ UNCHANGED <<isOpen, inputValue, selectedTeam, now,
                   parsedContent>>
    /\ UNCHANGED <<parserVars, typewriterVars, siteVars>>

\* sendMessage after the await: fetch rejected, or the response is not ok:
\* the catch block
ErrorArrives ==
    /\ Ready
    /\ fetchState = "pending"
    /\ messages' = AppendMessage(messages, AssistantMessage(ErrorText, now))
    /\ isLoading' = Finally(isLoading)
    /\ fetchState' = "idle"
    /\ requestBody' = NoRequest
    /\ bubbles' = RenderBubbles(bubbles, messages', isOpen)
    /\ revealed' = revealed \cup Completed(bubbles')
    /\ UNCHANGED <<isOpen, inputValue, selectedTeam, now,
                   parsedContent>>
    /\ UNCHANGED <<parserVars, typewriterVars, siteVars>>

\* clearContext: setMessages([]); setSelectedTeam(null)
ClearContext ==
    /\ Ready
    /\ isOpen
    /\ selectedTeam' = NoTeam
    /\ messages' = <<>>
    /\ bubbles' = RenderBubbles(<<>>, messages', isOpen)
    /\ revealed' = {}
    /\ UNCHANGED <<isOpen, inputValue, isLoading, now, fetchState, requestBody,
                   parsedContent>>
    /\ UNCHANGED <<parserVars, typewriterVars, siteVars>>

\* a button of the team selector: setSelectedTeam(team); setMessages([])
SelectTeam ==
    /\ Ready
    /\ isOpen
    /\ \E team \in Teams : selectedTeam' = team
    /\ messages' = <<>>
    /\ bubbles' = RenderBubbles(<<>>, messages', isOpen)
    /\ revealed' = {}
    /\ UNCHANGED <<isOpen, inputValue, isLoading, now, fetchState, requestBody,
                   parsedContent>>
    /\ UNCHANGED <<parserVars, typewriterVars, siteVars>>

\* the effect on the report context: a report of a known team is loaded
ReportTeam ==
    /\ Ready
    /\ \E team \in Teams : team # selectedTeam /\ selectedTeam' = team
    /\ UNCHANGED <<isOpen, messages, inputValue, isLoading, now, fetchState, requestBody,
                   bubbles, revealed,
                   parsedContent>>
    /\ UNCHANGED <<parserVars, typewriterVars, siteVars>>

\* the interval callback of one animated text token
TickToken ==
    /\ \E i \in 1..Len(bubbles) : \E k \in 1..Len(bubbles[i]) :
        /\ bubbles[i][k].timer = "active"
        /\ bubbles' = [bubbles EXCEPT ![i] = TickBubble(bubbles[i], k)]
    /\ revealed' = revealed \cup Completed(bubbles')
    /\ UNCHANGED <<isOpen, messages, inputValue, isLoading, selectedTeam, now,
                   fetchState, requestBody,
                   parsedContent>>
    /\ UNCHANGED <<parserVars, typewriterVars, siteVars>>

ChatNext ==
    \/ Advance \/ Welcome \/ ToggleOpen \/ TypeInput \/ SendMessage \/ ResponseArrives
    \/ ErrorArrives \/ ClearContext \/ SelectTeam \/ ReportTeam \/ TickToken

SpecChat == ChatInit /\ [][ChatNext]_vars

\* a text token seen from both sides: useTypewriter under any parent, with
\* either value of enabled, or the tokens of the bubbles of ChatWidget
SpecTextToken ==
    (TypewriterInit \/ ChatInit) /\ [][TypewriterNext \/ ChatNext]_vars

-----------------------------------------------------------------------------
(* sendMessage on the store of a long conversation; the window that renders
   the store is left out *)

\* the contents of an answer: a response or the error text
AnswerTexts == ResponseTexts \cup {ErrorText}

\* the stores after n exchanges since the welcome message, all marked old
RECURSIVE Conversations(_)
Conversations(n) ==
    IF n = 0 THEN {MarkOld(<<WelcomeMessage(NoTeam, 0)>>)}
    ELSE {MarkOld(s \o <<UserMessage(q, 0), AssistantMessage(a, 0)>>) :
            s \in Conversations(n - 1), q \in UserTexts, a \in AnswerTexts}

\* the last message is the fresh one
MarkLastNew(s) == [s EXCEPT ![Len(s)].isNew = TRUE]

\* the stores a message is sent from
Stores == {MarkLastNew(s) : s \in UNION {Conversations(n) : n \in 0..MaxExchanges}}

\* a conversation is under way and no request is in flight
HistoryInit ==
    /\ ParserOff
    /\ TypewriterOff
    /\ SiteOff
    /\ isOpen = TRUE
    /\ messages \in Stores
    /\ inputValue \in InputValues
    /\ isLoading = FALSE
    /\ selectedTeam = NoTeam
    /\ now \in 0..MaxClock
    /\ fetchState = "unmounted"
    /\ requestBody = NoRequest
    /\ parsedContent = <<>>
    /\ bubbles = <<>>
    /\ revealed = {}

\* sendMessage up to the await of fetch, on the store alone
SendFromStore ==
    /\ fetchState = "unmounted"
    /\ isOpen
    /\ \E messageText \in UserTexts \cup {<<>>} : SendAccepted(messageText)
    /\ UNCHANGED <<isOpen, selectedTeam, now, fetchState, parsedContent, bubbles,
                   revealed>>
    /\ UNCHANGED <<parserVars, typewriterVars, siteVars>>

HistoryNext == SendFromStore

SpecHistory == HistoryInit /\ [][HistoryNext]_vars

-----------------------------------------------------------------------------
(* AgentIcon: the lookup of the glyph of an agent *)

UpperLetters ==
    <<"A", "B", "C", "D", "E", "F", "G", "H", "I", "J", "K", "L", "M",
      "N", "O", "P", "Q", "R", "S", "T", "U", "V", "W", "X", "Y", "Z">>
LowerLetters ==
    <<"a", "b", "c", "d", "e", "f", "g", "h", "i", "j", "k", "l", "m",
      "n", "o", "p", "q", "r", "s", "t", "u", "v", "w", "x", "y", "z">>

ToLowerChar(c) ==
    IF \E i \in 1..26 : UpperLetters[i] = c
    THEN LowerLetters[CHOOSE i \in 1..26 : UpperLetters[i] = c]
    ELSE c

ToUpperChar(c) ==
    IF \E i \in 1..26 : LowerLetters[i] = c
    THEN UpperLetters[CHOOSE i \in 1..26 : LowerLetters[i] = c]
    ELSE c

\* String.prototype.toLowerCase
ToLowerCase(s) == [i \in 1..Len(s) |-> ToLowerChar(s[i])]

KeyJett == <<"j", "e", "t", "t">>
KeyReyna == <<"r", "e", "y", "n", "a">>
KeySage == <<"s", "a", "g", "e">>
KeySova == <<"s", "o", "v", "a">>
KeyOmen == <<"o", "m", "e", "n">>
KeyDefault == <<"d", "e", "f", "a", "u", "l", "t">>

\* the object literal agentIcons: its own properties, each glyph named by
\* its component
agentIcons ==
    (KeyJett :> "Zap") @@ (KeyReyna :> "Sword") @@ (KeySage :> "Shield")
        @@ (KeySova :> "Target") @@ (KeyOmen :> "Brain") @@ (KeyDefault :> "Crosshair")

\* the properties an object literal inherits from Object.prototype: the
\* methods, and the accessor __proto__, which yields the prototype object
ObjectPrototype ==
    (<<"c", "o", "n", "s", "t", "r", "u", "c", "t", "o", "r">> :> "function")
        @@ (<<"t", "o", "S", "t", "r", "i", "n", "g">> :> "function")
        @@ (<<"t", "o", "L", "o", "c", "a", "l", "e", "S", "t", "r", "i", "n", "g">>
                :> "function")
        @@ (<<"v", "a", "l", "u", "e", "O", "f">> :> "function")
        @@ (<<"h", "a", "s", "O", "w", "n", "P", "r", "o", "p", "e", "r", "t", "y">>
                :> "function")
        @@ (<<"i", "s", "P", "r", "o", "t", "o", "t", "y", "p", "e", "O", "f">>
                :> "function")
        @@ (<<"_", "_", "p", "r", "o", "t", "o", "_", "_">> :> "object")

\* name.toLowerCase(): the key that is looked up
AgentIconKey(n) == ToLowerCase(n)

\* agentIcons[key]: an own property, else an inherited one, else undefined
GetProperty(key) ==
    IF key \in DOMAIN agentIcons THEN agentIcons[key]
    ELSE IF key \in DOMAIN ObjectPrototype THEN ObjectPrototype[key]
    ELSE "undefined"

\* const icon = agentIcons[name.toLowerCase()] || agentIcons.default
AgentIcon(n) ==
    LET found == GetProperty(AgentIconKey(n))
    IN  IF found # "undefined" THEN found ELSE agentIcons[KeyDefault]

\* a name in every mix of upper and lower case
CaseVariants(s) ==
    {t \in [1..Len(s) -> {s[i] : i \in 1..Len(s)} \cup {ToUpperChar(s[i]) : i \in 1..Len(s)}] :
        \A i \in 1..Len(s) : t[i] \in {s[i], ToUpperChar(s[i])}}

\* the names AgentIcon is rendered with: the agents it knows in any case,
\* agents it does not know, the key of the fallback, names of inherited
\* properties, the empty name
AgentNames ==
    CaseVariants(KeyJett) \cup CaseVariants(KeyReyna) \cup CaseVariants(KeySage)
        \cup CaseVariants(KeySova) \cup CaseVariants(KeyOmen)
        \cup {KeyDefault, <<"D", "e", "f", "a", "u", "l", "t">>,
              <<"n", "e", "o", "n">>, <<"R", "a", "z", "e">>, <<"j", "e", "t">>,
              <<"c", "o", "n", "s", "t", "r", "u", "c", "t", "o", "r">>,
              <<"t", "o", "S", "t", "r", "i", "n", "g">>,
              <<"v", "a", "l", "u", "e", "O", "f">>,
              <<"_", "_", "p", "r", "o", "t", "o", "_", "_">>,
              <<>>}

\* <AgentIcon name=... /> is about to render
AgentIconInit ==
    /\ ParserOff
    /\ TypewriterOff
    /\ ChatOff
    /\ RouteOff
    /\ FetchOff
    /\ ReportPageOff
    /\ MappingOff
    /\ name \in AgentNames
    /\ icon = "unrendered"

\* AgentIcon renders: the glyph it puts in front of the name
RenderAgentIcon ==
    /\ icon = "unrendered"
    /\ icon' = AgentIcon(name)
    /\ UNCHANGED name
    /\ UNCHANGED <<parserVars, typewriterVars, chatVars, routeVars, fetchVars,
                   reportPageVars, mappingVars>>

\* the parent renders it again with another name
RenameAgentIcon ==
    /\ icon \notin {NoIcon, "unrendered"}
    /\ \E n \in {KeyJett, KeyDefault, <<"n", "e", "o", "n">>} \ {name} :
        /\ name' = n
        /\ icon' = AgentIcon(n)
    /\ UNCHANGED <<parserVars, typewriterVars, chatVars, routeVars, fetchVars,
                   reportPageVars, mappingVars>>

AgentIconNext == RenderAgentIcon \/ RenameAgentIcon

SpecAgentIcon == AgentIconInit /\ [][AgentIconNext]_vars

-----------------------------------------------------------------------------
(* ReportContent and VersusPageContent: pages that fetch in an effect keyed
   by the team parameters of the URL *)

\* the URL queries of the report page: ?team=...
ReportQueries ==
    {[team |-> t, team1 |-> NoParam, team2 |-> NoParam, opponent |-> NoParam] :
        t \in {NoParam, "Sentinels", "LOUD"}}

\* the URL queries of the versus page: ?team1=...&team2=... or
\* ?team=...&opponent=..., or one team missing
VersusQueries ==
    {[team |-> NoParam, team1 |-> "Sentinels", team2 |-> "LOUD", opponent |-> NoParam],
     [team |-> "Sentinels", team1 |-> NoParam, team2 |-> NoParam, opponent |-> "LOUD"],
     [team |-> NoParam, team1 |-> "LOUD", team2 |-> "Sentinels", opponent |-> NoParam],
     [team |-> NoParam, team1 |-> "LOUD", team2 |-> NoParam, opponent |-> NoParam]}

\* a || b on values of searchParams.get
OrParam(a, b) == IF a # NoParam /\ a # "" THEN a ELSE b

\* const teamParam = searchParams.get('team') || ''
TeamParam(q) == OrParam(q.team, "")
\* const team1Param = searchParams.get('team1') || searchParams.get('team')
Team1Param(q) == OrParam(q.team1, q.team)
\* const team2Param = searchParams.get('team2') || searchParams.get('opponent')
Team2Param(q) == OrParam(q.team2, q.opponent)

\* the response of the backend for the teams asked for, as the page stores it
ApiData(teams) == [of |-> teams, source |-> "api"]
\* { ...mockData, team_name: teamParam }
MockReport(team) == [of |-> <<team>>, source |-> "mock"]
\* MOCK_DATA of the versus page
MOCK_DATA == [of |-> <<"Sentinels", "LOUD">>, source |-> "mock"]

\* the ways a request fails: fetch rejects, or the status is not ok
Failures == {"transport", "status"}
\* err.message on the report page (errData.detail is taken as absent)
ReportErrorMessage(f) ==
    IF f = "transport" THEN "Failed to fetch" ELSE "Failed to generate report"
\* (err as Error).message on the versus page
VersusErrorMessage(f) ==
    IF f = "transport" THEN "Failed to fetch" ELSE "Failed to fetch comparison data"

\* finally { setLoading(false) } of both pages
DoneLoading(l) == FALSE

\* the dependencies of the effect of the page
EffectDeps(p, q) ==
    IF p = "ReportContent" THEN <<TeamParam(q)>> ELSE <<Team1Param(q), Team2Param(q)>>

\* ReportContent has rendered for the first time
ReportContentInit ==
    /\ ParserOff
    /\ TypewriterOff
    /\ ChatOff
    /\ IconOff
    /\ ReportPageOff
    /\ MappingOff
    /\ page = "ReportContent"
    /\ searchParams \in ReportQueries
    /\ loading = TRUE
    /\ error = ""
    /\ data = NoData
    /\ inflight = {}
    /\ effectDue = TRUE
    /\ latest = 0
    /\ dataFrom = 0

\* VersusPageContent has rendered for the first time
VersusInit ==
    /\ ParserOff
    /\ TypewriterOff
    /\ ChatOff
    /\ IconOff
    /\ ReportPageOff
    /\ MappingOff
    /\ page = "Versus"
    /\ searchParams \in VersusQueries
    /\ loading = TRUE
    /\ error = NoError
    /\ data = NoData
    /\ inflight = {}
    /\ effectDue = TRUE
    /\ latest = 0
    /\ dataFrom = 0

\* the effect of ReportContent up to the await of fetch
FetchReportEffect ==
    /\ page = "ReportContent"
    /\ effectDue
    /\ effectDue' = FALSE
    /\ IF TeamParam(searchParams) = ""
       THEN \* router.push('/'); return
            /\ page' = "left"
            /\ UNCHANGED <<loading, error, inflight, latest>>
       ELSE /\ loading' = TRUE
            /\ error' = ""
            /\ latest' = latest + 1
            /\ inflight' = inflight \cup {[id |-> latest', of |-> <<TeamParam(searchParams)>>]}
            /\ UNCHANGED page
    /\ UNCHANGED <<searchParams, data, dataFrom>>
    /\ UNCHANGED <<parserVars, typewriterVars, chatVars, iconVars, reportPageVars,
                   mappingVars>>

\* the effect of VersusPageContent up to the await of fetch
FetchDataEffect ==
    /\ page = "Versus"
    /\ effectDue
    /\ effectDue' = FALSE
    /\ latest' = latest + 1
    /\ IF Team1Param(searchParams) = NoParam \/ Team2Param(searchParams) = NoParam
       THEN \* setData(MOCK_DATA); setLoading(false); return
            /\ data' = MOCK_DATA
            /\ dataFrom' = latest'
            /\ loading' = FALSE
            /\ UNCHANGED inflight
       ELSE /\ inflight' = inflight \cup
                {[id |-> latest',
                  of |-> <<Team1Param(searchParams), Team2Param(searchParams)>>]}
            /\ UNCHANGED <<data, dataFrom, loading>>
    /\ UNCHANGED <<page, searchParams, error>>
    /\ UNCHANGED <<parserVars, typewriterVars, chatVars, iconVars, reportPageVars,
                   mappingVars>>

\* the URL changes while the page stays mounted: it renders with the new
\* parameters, and the effect is due when its dependencies changed
Navigate ==
    /\ page \in {"ReportContent", "Versus"}
    /\ ~effectDue
    /\ latest < MaxRequests
    /\ \E q \in (IF page = "ReportContent" THEN ReportQueries ELSE VersusQueries) :
        /\ q # searchParams
        /\ searchParams' = q
        /\ effectDue' = (EffectDeps(page, q) # EffectDeps(page, searchParams))
    /\ UNCHANGED <<page, loading, error, data, inflight, latest, dataFrom>>
    /\ UNCHANGED <<parserVars, typewriterVars, chatVars, iconVars, reportPageVars,
                   mappingVars>>

\* fetchReport after the await: the response is ok
ReportFetched ==
    /\ page = "ReportContent"
    /\ ~effectDue
    /\ \E r \in inflight :
        /\ inflight' = inflight \ {r}
        /\ data' = ApiData(r.of)
        /\ dataFrom' = r.id
    /\ loading' = DoneLoading(loading)
    /\ UNCHANGED <<page, searchParams, error, effectDue, latest>>
    /\ UNCHANGED <<parserVars, typewriterVars, chatVars, iconVars, reportPageVars,
                   mappingVars>>

\* fetchReport after the await: the catch block
ReportFetchFailed ==
    /\ page = "ReportContent"
    /\ ~effectDue
    /\ \E r \in inflight : \E f \in Failures :
        /\ inflight' = inflight \ {r}
        /\ data' = MockReport(r.of[1])
        /\ dataFrom' = r.id
        /\ error' = ReportErrorMessage(f)
    /\ loading' = DoneLoading(loading)
    /\ UNCHANGED <<page, searchParams, effectDue, latest>>
    /\ UNCHANGED <<parserVars, typewriterVars, chatVars, iconVars, reportPageVars,
                   mappingVars>>

\* fetchData after the await: the response is ok
VersusFetched ==
    /\ page = "Versus"
    /\ ~effectDue
    /\ \E r \in inflight :
        /\ inflight' = inflight \ {r}
        /\ data' = ApiData(r.of)
        /\ dataFrom' = r.id
    /\ loading' = DoneLoading(loading)
    /\ UNCHANGED <<page, searchParams, error, effectDue, latest>>
    /\ UNCHANGED <<parserVars, typewriterVars, chatVars, iconVars, reportPageVars,
                   mappingVars>>

\* fetchData after the await: the catch block
VersusFetchFailed ==
    /\ page = "Versus"
    /\ ~effectDue
    /\ \E r \in inflight : \E f \in Failures :
        /\ inflight' = inflight \ {r}
        /\ error' = VersusErrorMessage(f)
        /\ data' = MOCK_DATA
        /\ dataFrom' = r.id
    /\ loading' = DoneLoading(loading)
    /\ UNCHANGED <<page, searchParams, effectDue, latest>>
    /\ UNCHANGED <<parserVars, typewriterVars, chatVars, iconVars, reportPageVars,
                   mappingVars>>

FetchPagesNext ==
    \/ FetchReportEffect \/ FetchDataEffect \/ Navigate
    \/ ReportFetched \/ ReportFetchFailed \/ VersusFetched \/ VersusFetchFailed

-----------------------------------------------------------------------------
(* ReportPage: startGeneration, from the parsed response of the backend to
   the report and the roster it stores *)

\* a number the response does not have (data.stats?.series_win_rate is
\* undefined); the numbers of the backend are not negative
Undefined == -1

\* v || d on numbers: undefined and 0 are falsy
OrNumber(v, d) == IF v = Undefined \/ v = 0 THEN d ELSE v

\* Math.round(n / d), n >= 0 and d > 0
Round(n, d) == (2 * n + d) \div (2 * d)

\* the outcomes of Math.random(), in tenths
RandomDraws == {0, 9}

\* data.stats?.series_win_rate || 50, and the like
SeriesWinRate(d) ==
    OrNumber(IF d.stats.present THEN d.stats.series_win_rate ELSE Undefined, 50)
MapWinRate(d) ==
    OrNumber(IF d.stats.present THEN d.stats.map_win_rate ELSE Undefined, 50)
TotalMaps(d) ==
    OrNumber(IF d.stats.present THEN d.stats.total_maps ELSE Undefined, 0)

getArchetype(wr) ==
    IF wr >= 70 THEN "Dominant Aggressor"
    ELSE IF wr >= 55 THEN "Tactical Balanced"
    ELSE IF wr >= 45 THEN "Reactive Defensive"
    ELSE "Rebuilding Phase"

getSimilarTeam(wr) ==
    IF wr >= 70 THEN "Fnatic"
    ELSE IF wr >= 60 THEN "Team Liquid"
    ELSE IF wr >= 50 THEN "Cloud9"
    ELSE "100 Thieves"

\* const exploitability = Math.round(100 - seriesWinRate)
Exploitability(d) == Round(100 - SeriesWinRate(d), 1)

\* Math.min
Min2(a, b) == IF a <= b THEN a ELSE b

\* team_stats; rf and rc are the draws of Form and of Clutch
TeamStats(d, rf, rc) ==
    <<[subject |-> "Win Rate", A |-> Round(SeriesWinRate(d), 1), fullMark |-> 100],
      [subject |-> "Map Pool", A |-> Min2(100, TotalMaps(d) * 10), fullMark |-> 100],
      [subject |-> "Consistency", A |-> Round(MapWinRate(d), 1), fullMark |-> 100],
      [subject |-> "Form", A |-> Round(9 * SeriesWinRate(d) + 10 * rf, 10),
       fullMark |-> 100],
      [subject |-> "Clutch", A |-> Round(8 * MapWinRate(d) + 15 * rc, 10),
       fullMark |-> 100]>>

\* String.prototype.substring(from, to), 0 <= from <= to
Substring(s, from, to) == Slice(s, Min2(from, Len(s)), Min2(to, Len(s)))

\* s.slice(0, n) of a list
Take(s, n) == SubSeq(s, 1, Min2(n, Len(s)))

\* ins.category === 'performance' || ins.priority >= 2
IsCorrelation(ins) == ins.category = "performance" \/ ins.priority >= 2

\* ins.category === 'weakness' || ins.category === 'form' || ins.priority >= 3
IsWeakness(ins) == ins.category \in {"weakness", "form"} \/ ins.priority >= 3

\* `Factor ${idx + 1}`
FactorLabel(k) == <<"F", "a", "c", "t", "o", "r", " ">> \o ToDigits(k)

\* correlations: from the insights when the response has them, else the
\* four fixed factors; rs are the draws, one per entry; a value is kept as
\* a fraction
Correlations(d, rs) ==
    IF d.insights.present
    THEN LET sel == Take(SelectSeq(d.insights.list, IsCorrelation), 4)
         IN  [k \in 1..Len(sel) |->
                [factor |-> IF sel[k].fact # <<>> THEN Substring(sel[k].fact, 0, 30)
                            ELSE FactorLabel(k),
                 value |-> [num |-> OrNumber(sel[k].priority, 50) * (60 + 3 * rs[k]),
                            den |-> 10000]]]
    ELSE <<[factor |-> "First Blood Loss", value |-> [num |-> 65 + 2 * rs[1], den |-> 100]],
           [factor |-> "Low Economy", value |-> [num |-> 55 + 2 * rs[2], den |-> 100]],
           [factor |-> "Overtime Pressure", value |-> [num |-> 45 + 2 * rs[3], den |-> 100]],
           [factor |-> "Site Execution", value |-> [num |-> 40 + 2 * rs[4], den |-> 100]]>>

\* a || b on strings: the empty string is falsy, as an absent one is
OrString(a, b) == IF a # <<>> THEN a ELSE b

\* weaknesses: from the insights when the response has them, else three
\* fixed ones, the first of which names the team
Weaknesses(d) ==
    IF d.insights.present
    THEN LET sel == Take(SelectSeq(d.insights.list, IsWeakness), 3)
         IN  [k \in 1..Len(sel) |->
                [title |-> IF sel[k].fact # <<>> THEN Substring(sel[k].fact, 0, 40)
                           ELSE <<"Tactical Gap">>,
                 description |->
                    OrString(sel[k].consequence,
                             OrString(sel[k].recommendation,
                                      <<"Requires further analysis">>))]]
    ELSE <<[title |-> "Map Pool Limitation",
            description |-> <<d.team_name, " shows vulnerability on specific maps">>],
           [title |-> "Tempo Disruption",
            description |-> <<"Team struggles when forced into fast-paced decisions">>],
           [title |-> "Economy Management",
            description |-> <<"Suboptimal buy decisions after consecutive losses">>]>>

\* mappedData
MapReport(d, rf, rc, rs) ==
    [present |-> TRUE,
     team_name |-> d.team_name,
     exploitability_score |-> Exploitability(d),
     clustering_label |-> getArchetype(SeriesWinRate(d)),
     similar_pro_team |-> getSimilarTeam(SeriesWinRate(d)),
     team_stats |-> TeamStats(d, rf, rc),
     scouting_report_markdown |-> d.report,
     correlations |-> Correlations(d, rs),
     weaknesses |-> Weaknesses(d)]

\* the keys of fallbackRosters, in the order of Object.entries
FallbackKeys ==
    <<<<"S", "e", "n", "t", "i", "n", "e", "l", "s">>,
      <<"C", "l", "o", "u", "d", "9">>,
      <<"1", "0", "0", " ", "T", "h", "i", "e", "v", "e", "s">>,
      <<"F", "n", "a", "t", "i", "c">>,
      <<"L", "O", "U", "D">>>>

\* fallbackRosters, by the index of the key; the badges without their
\* pictograms
fallbackRosters ==
    <<<<[name |-> "TenZ", agent |-> "Jett", badges |-> <<"FIRST BLOOD", "ENTRY">>],
        [name |-> "zekken", agent |-> "Raze", badges |-> <<"AGGRESSIVE">>],
        [name |-> "Sacy", agent |-> "Fade", badges |-> <<"CLUTCH OPENER">>]>>,
      <<[name |-> "Xeppaa", agent |-> "Omen", badges |-> <<"IGL", "ANCHOR">>],
        [name |-> "jakee", agent |-> "Jett", badges |-> <<"FIRST BLOOD">>],
        [name |-> "Oxy", agent |-> "Cypher", badges |-> <<"SITE HOLDER">>]>>,
      <<[name |-> "Asuna", agent |-> "Raze", badges |-> <<"AGGRESSIVE", "ENTRY">>],
        [name |-> "bang", agent |-> "Killjoy", badges |-> <<"ANCHOR">>],
        [name |-> "Cryocells", agent |-> "Jett", badges |-> <<"FIRST BLOOD">>]>>,
      <<[name |-> "Derke", agent |-> "Jett", badges |-> <<"FIRST BLOOD", "HIGH IMPACT">>],
        [name |-> "Alfajer", agent |-> "Raze", badges |-> <<"AGGRESSIVE">>],
        [name |-> "Boaster", agent |-> "Fade", badges |-> <<"IGL">>]>>,
      <<[name |-> "aspas", agent |-> "Jett", badges |-> <<"FIRST BLOOD", "TRUE DUELIST">>],
        [name |-> "Less", agent |-> "KAY/O", badges |-> <<"CLUTCH OPENER">>],
        [name |-> "tuyz", agent |-> "Omen", badges |-> <<"IGL">>]>>>>

\* String.prototype.includes
Includes(s, sub) ==
    \E k \in 0..(Len(s) - Len(sub)) : Slice(s, k, k + Len(sub)) = sub

\* the keys that match the team name, either way round
MatchingKeys(team) ==
    {i \in 1..Len(FallbackKeys) :
        \/ Includes(ToLowerCase(team), ToLowerCase(FallbackKeys[i]))
        \/ Includes(ToLowerCase(FallbackKeys[i]), ToLowerCase(team))}

\* String.prototype.charCodeAt, for the characters of the team names
CharCodes ==
    ("G" :> 71) @@ ("2" :> 50) @@ ("K" :> 75) @@ ("C" :> 67) @@ ("N" :> 78)
        @@ ("R" :> 82)

CharCodeAt(s, i) == CharCodes[s[i + 1]]

agents == <<"Jett", "Raze", "Omen", "Killjoy", "Sova">>
badges == <<<<"FIRST BLOOD">>, <<"AGGRESSIVE">>, <<"IGL">>, <<"ANCHOR">>, <<"CLUTCH OPENER">>>>

\* the generic roster, seeded by the first and the last character of the
\* team name
GenericRoster(team) ==
    LET seed == CharCodeAt(team, 0) + CharCodeAt(team, Len(team) - 1)
        Player(k) ==
            [name |-> Substring(team, 0, 3) \o <<"P", "l", "a", "y", "e", "r">> \o ToDigits(k),
             agent |-> agents[((seed + k - 1) % 5) + 1],
             badges |-> badges[((seed + k - 1) % 5) + 1]]
    IN  <<Player(1), Player(2), Player(3)>>

\* what setRosterIntel is called with
Roster(d) ==
    IF d.roster_intel.present /\ Len(d.roster_intel.list) > 0
    THEN d.roster_intel.list
    ELSE IF MatchingKeys(d.team_name) # {}
         THEN fallbackRosters[CHOOSE i \in MatchingKeys(d.team_name) :
                                \A j \in MatchingKeys(d.team_name) : i <= j]
         ELSE GenericRoster(d.team_name)

\* the responses of the backend: a known team with statistics, insights and
\* a roster, for several win rates; an unknown team without insights and
\* without roster; a team without statistics, with empty lists; an unknown
\* team with an insight that has neither fact nor priority
NoStats ==
    [present |-> FALSE, series_win_rate |-> Undefined, map_win_rate |-> Undefined,
     total_maps |-> Undefined]
Stats(s, m, t) ==
    [present |-> TRUE, series_win_rate |-> s, map_win_rate |-> m, total_maps |-> t]
Absent == [present |-> FALSE, list |-> <<>>]
Listed(l) == [present |-> TRUE, list |-> l]
WinRates == {0, 1, 45, 70, 100}
Responses ==
    {[ok |-> TRUE, team_name |-> <<"S", "e", "n", "t", "i", "n", "e", "l", "s">>,
      stats |-> Stats(w, 59, 7),
      insights |-> Listed(<<[category |-> "weakness", priority |-> 3,
                             fact |-> <<"e", "c", "o">>, consequence |-> <<>>,
                             recommendation |-> <<"s", "a", "v", "e">>]>>),
      roster_intel |-> Listed(<<[name |-> "TenZ", agent |-> "Jett",
                                 badges |-> <<"ENTRY">>]>>),
      report |-> "# Sentinels"] : w \in WinRates}
    \cup {[ok |-> TRUE, team_name |-> <<"G", "2">>,
           stats |-> Stats(0, 45, 12), insights |-> Absent, roster_intel |-> Absent,
           report |-> "# G2"],
          [ok |-> TRUE, team_name |-> <<"l", "o", "u", "d">>,
           stats |-> NoStats, insights |-> Listed(<<>>), roster_intel |-> Listed(<<>>),
           report |-> "# LOUD"],
          [ok |-> TRUE, team_name |-> <<"N", "R", "G">>,
           stats |-> Stats(55, Undefined, Undefined),
           insights |-> Listed(<<[category |-> "performance", priority |-> Undefined,
                                  fact |-> <<>>, consequence |-> <<"c">>,
                                  recommendation |-> <<>>]>>),
           roster_intel |-> Absent, report |-> "# NRG"]}

\* the draws of one run of the mapping: one for Form, one for Clutch, one
\* for each entry of correlations
Draws(d) ==
    [form : RandomDraws, clutch : RandomDraws,
     corr : [1..Len(Correlations(d, [k \in 1..4 |-> 0])) -> RandomDraws]]

\* one backend response is under study
MappingInit ==
    /\ ParserOff
    /\ TypewriterOff
    /\ ChatOff
    /\ IconOff
    /\ RouteOff
    /\ FetchOff
    /\ ReportPageOff
    /\ response \in Responses
    /\ mapped = <<>>

\* startGeneration from `const data = await response.json()` to
\* setRosterIntel, run once more on the response
MapResponse ==
    /\ response.ok
    /\ Len(mapped) < MaxRuns
    /\ \E r \in Draws(response) :
        mapped' = Append(mapped,
                         [report |-> MapReport(response, r.form, r.clutch, r.corr),
                          roster |-> Roster(response)])
    /\ UNCHANGED response
    /\ UNCHANGED <<parserVars, typewriterVars, chatVars, iconVars, routeVars,
                   fetchVars, reportPageVars>>

MappingNext == MapResponse

SpecMapping == MappingInit /\ [][MappingNext]_vars

-----------------------------------------------------------------------------
(* ReportPage and HackerTerminal: INPUT, LOADING, RESULT *)

\* logSequence.length
LogSequenceLength == 8

\* the values of the input field
TeamInputs == {"", "Sentinels"}

\* the responses of the generations of a visit: the one without statistics
GenerationResponses == {d \in Responses : ~d.stats.present}

\* err.message (error.detail is taken as absent)
GenerationErrorMessage(f) ==
    IF f = "transport" THEN "Failed to fetch" ELSE "Scouting Failed"

\* setReportData of the report context
ContextOf(d) == [hasReport |-> TRUE, team_name |-> d.team_name]

\* mutant: the page stays where it is
StateAfterErrorStuck(s) == s

\* catch: setState('INPUT')
StateAfterError(s) == "INPUT"

\* if (!finalTeam) return
GenerationRefused(team) == team = ""

\* isReady={!!report}
isReady == report.present

\* HackerTerminal mounts: its state, and the interval of its first effect
TerminalMounts ==
    /\ logs' = 0
    /\ currentLine' = 0
    /\ animComplete' = FALSE
    /\ interval' = "active"

\* HackerTerminal unmounts: the cleanup clears the interval, the state is
\* gone; the timeouts of the second effect are not cleared
TerminalUnmounts ==
    /\ logs' = 0
    /\ currentLine' = 0
    /\ animComplete' = FALSE
    /\ interval' = "none"

\* the terminal as it is after the page moves from state s to state t
TerminalAcross(s, t) ==
    IF s # "LOADING" /\ t = "LOADING" THEN TerminalMounts
    ELSE IF s = "LOADING" /\ t # "LOADING" THEN TerminalUnmounts
    ELSE UNCHANGED <<logs, currentLine, animComplete, interval>>

\* startGeneration after its guard, up to the await of fetch
StartGeneration(team) ==
    /\ loadingError' = NoError
    /\ state' = "LOADING"
    /\ TerminalAcross(state, "LOADING")
    /\ latest' = latest + 1
    /\ inflight' = inflight \cup {[id |-> latest', of |-> <<team>>]}
    /\ UNCHANGED <<report, rosterIntel, reportData, timeouts, dataFrom>>

\* ReportPage has rendered for the first time
ReportPageInit ==
    /\ ParserOff
    /\ TypewriterOff
    /\ ChatOff
    /\ IconOff
    /\ FetchOff
    /\ MappingOff
    /\ page = "ReportPage"
    /\ searchParams \in ReportQueries
    /\ inflight = {}
    /\ effectDue = TRUE
    /\ latest = 0
    /\ dataFrom = 0
    /\ state = "INPUT"
    /\ teamInput = ""
    /\ report = NoReport
    /\ rosterIntel = <<>>
    /\ loadingError = NoError
    /\ reportData = NoContext
    /\ logs = 0
    /\ currentLine = 0
    /\ animComplete = FALSE
    /\ interval = "none"
    /\ timeouts = 0

\* the effect on searchParams: a team in the URL starts a generation
SearchParamsEffect ==
    /\ page = "ReportPage"
    /\ effectDue
    /\ effectDue' = FALSE
    /\ IF TeamParam(searchParams) # ""
       THEN /\ teamInput' = TeamParam(searchParams)
            /\ StartGeneration(TeamParam(searchParams))
       ELSE UNCHANGED <<reportPageVars, inflight, latest, dataFrom>>
    /\ UNCHANGED <<page, searchParams>>
    /\ UNCHANGED <<parserVars, typewriterVars, chatVars, iconVars, fetchVars, mappingVars>>

\* the URL changes while the page stays mounted: it renders again, and a
\* mounted terminal gets a new onComplete, so its second effect runs
NavigateReportPage ==
    /\ page = "ReportPage"
    /\ ~effectDue
    /\ latest < MaxRequests
    /\ \E q \in ReportQueries \ {searchParams} : searchParams' = q
    /\ effectDue' = TRUE
    /\ timeouts' = IF state = "LOADING" /\ animComplete /\ isReady
                   THEN timeouts + 1 ELSE timeouts
    /\ UNCHANGED <<page, inflight, latest, dataFrom>>
    /\ UNCHANGED <<state, teamInput, report, rosterIntel, loadingError, reportData,
                   logs, currentLine, animComplete, interval>>
    /\ UNCHANGED <<parserVars, typewriterVars, chatVars, iconVars, fetchVars, mappingVars>>

\* onChange of the input, which the INPUT state shows
TypeTeamInput ==
    /\ page = "ReportPage"
    /\ ~effectDue
    /\ state = "INPUT"
    /\ \E v \in TeamInputs \ {teamInput} : teamInput' = v
    /\ UNCHANGED <<state, report, rosterIntel, loadingError, reportData, logs,
                   currentLine, animComplete, interval, timeouts>>
    /\ UNCHANGED routeVars
    /\ UNCHANGED <<parserVars, typewriterVars, chatVars, iconVars, fetchVars, mappingVars>>

\* GENERATE or Enter: startGeneration()
Generate ==
    /\ page = "ReportPage"
    /\ ~effectDue
    /\ state = "INPUT"
    /\ latest < MaxRequests
    /\ ~GenerationRefused(teamInput)
    /\ StartGeneration(teamInput)
    /\ UNCHANGED <<teamInput, page, searchParams, effectDue>>
    /\ UNCHANGED <<parserVars, typewriterVars, chatVars, iconVars, fetchVars, mappingVars>>

\* startGeneration after the await: the response is ok; the terminal
\* renders with a new onComplete, so its second effect runs
GenerationSucceeds ==
    /\ page = "ReportPage"
    /\ ~effectDue
    /\ \E r \in inflight : \E d \in GenerationResponses : \E w \in Draws(d) :
        /\ inflight' = inflight \ {r}
        /\ dataFrom' = r.id
        /\ report' = MapReport(d, w.form, w.clutch, w.corr)
        /\ rosterIntel' = Roster(d)
        /\ reportData' = ContextOf(d)
    /\ timeouts' = IF state = "LOADING" /\ animComplete THEN timeouts + 1 ELSE timeouts
    /\ UNCHANGED <<state, teamInput, loadingError, logs, currentLine, animComplete,
                   interval>>
    /\ UNCHANGED <<page, searchParams, effectDue, latest>>
    /\ UNCHANGED <<parserVars, typewriterVars, chatVars, iconVars, fetchVars, mappingVars>>

\* startGeneration after the await: the catch block
GenerationFails ==
    /\ page = "ReportPage"
    /\ ~effectDue
    /\ \E r \in inflight : \E f \in Failures :
        /\ inflight' = inflight \ {r}
        /\ loadingError' = GenerationErrorMessage(f)
    /\ state' = StateAfterError(state)
    /\ TerminalAcross(state, state')
    /\ UNCHANGED <<teamInput, report, rosterIntel, reportData, timeouts>>
    /\ UNCHANGED <<page, searchParams, effectDue, latest, dataFrom>>
    /\ UNCHANGED <<parserVars, typewriterVars, chatVars, iconVars, fetchVars, mappingVars>>

\* the interval callback of the terminal: one more line, or the end of the
\* animation, after which the second effect runs
TerminalTick ==
    /\ page = "ReportPage"
    /\ state = "LOADING"
    /\ interval = "active"
    /\ IF currentLine < LogSequenceLength
       THEN /\ logs' = logs + 1
            /\ currentLine' = currentLine + 1
            /\ UNCHANGED <<animComplete, interval, timeouts>>
       ELSE /\ interval' = "cleared"
            /\ animComplete' = TRUE
            /\ timeouts' = IF isReady THEN timeouts + 1 ELSE timeouts
            /\ UNCHANGED <<logs, currentLine>>
    /\ UNCHANGED <<state, teamInput, report, rosterIntel, loadingError, reportData>>
    /\ UNCHANGED routeVars
    /\ UNCHANGED <<parserVars, typewriterVars, chatVars, iconVars, fetchVars, mappingVars>>

\* a timeout of the second effect fires: handleLoadingComplete
HandleLoadingComplete ==
    /\ page = "ReportPage"
    /\ timeouts > 0
    /\ timeouts' = timeouts - 1
    /\ state' = "RESULT"
    /\ TerminalAcross(state, "RESULT")
    /\ UNCHANGED <<teamInput, report, rosterIntel, loadingError, reportData>>
    /\ UNCHANGED routeVars
    /\ UNCHANGED <<parserVars, typewriterVars, chatVars, iconVars, fetchVars, mappingVars>>

\* the back button of the result: setState('INPUT')
Back ==
    /\ page = "ReportPage"
    /\ ~effectDue
    /\ state = "RESULT"
    /\ report.present
    /\ state' = "INPUT"
    /\ UNCHANGED <<teamInput, report, rosterIntel, loadingError, reportData, logs,
                   currentLine, animComplete, interval, timeouts>>
    /\ UNCHANGED routeVars
    /\ UNCHANGED <<parserVars, typewriterVars, chatVars, iconVars, fetchVars, mappingVars>>

ReportPageNext ==
    \/ SearchParamsEffect \/ NavigateReportPage \/ TypeTeamInput \/ Generate
    \/ GenerationSucceeds \/ GenerationFails \/ TerminalTick \/ HandleLoadingComplete
    \/ Back

\* the three pages that fetch
SpecPages ==
    (ReportContentInit \/ VersusInit \/ ReportPageInit)
        /\ [][FetchPagesNext \/ ReportPageNext]_vars

-----------------------------------------------------------------------------
(* Vocabulary of the properties *)

\* the parser has returned (the result is in parts)
Returned == pc \in {"returned", "rendered"}

\* t holds sub as a contiguous substring
Contains(t, sub) ==
    \E k \in 0..(Len(t) - Len(sub)) : Slice(t, k, k + Len(sub)) = sub

\* the indices at which a recognized tag name starts
TagStarts(s) ==
    {i \in 0..(Len(s) - 1) :
        \/ StartsWithAt(s, i, ProgressBarTag)
        \/ StartsWithAt(s, i, AgentIconTag)
        \/ StartsWithAt(s, i, StatCardTag)}

\* the match of the tag-specific pattern of the tag that starts at i
SpecificMatchAt(s, i) ==
    IF StartsWithAt(s, i, ProgressBarTag) THEN ProgressMatchAt(s, i)
    ELSE IF StartsWithAt(s, i, AgentIconTag) THEN AgentMatchAt(s, i)
    ELSE IF StartsWithAt(s, i, StatCardTag) THEN StatMatchAt(s, i)
    ELSE NoMatch

\* the widget token a well-formed tag stands for: attributes from the tag,
\* color 'red' and trend 'neutral' when absent
TokenOfTag(s, i) ==
    LET m == SpecificMatchAt(s, i)
    IN  IF StartsWithAt(s, i, ProgressBarTag)
        THEN [type |-> "progress", content |-> <<>>,
              props |-> [label |-> m.g1, value |-> ParseInt(m.g2),
                         color |-> IF m.g3 = <<>> THEN Red ELSE m.g3]]
        ELSE IF StartsWithAt(s, i, AgentIconTag)
        THEN [type |-> "agent", content |-> <<>>, props |-> [name |-> m.g1]]
        ELSE [type |-> "stat", content |-> <<>>,
              props |-> [label |-> m.g1, value |-> m.g2,
                         trend |-> IF m.g3 = <<>> THEN Neutral ELSE m.g3]]

\* s holds nothing any pattern of the parser matches
NoMarkup(s) ==
    \A i \in 0..(Len(s) - 1) :
        CombinedMatchEnd(s, i) = -1 /\ ~SpecificMatchAt(s, i).found

-----------------------------------------------------------------------------
(* Properties of parseMessageContent, under Spec *)

\* C1: an input without widget markup, leading or trailing white space
\* included, parses to exactly one text token whose content is the input.
C1_NoMarkupVerbatim ==
    (Returned /\ NoMarkup(content)) => parts = <<TextToken(content)>>

\* C4: the parser returns a non-empty token list for every input, and for
\* the empty string exactly one text token with empty content.
C4_NonEmptyResult ==
    Returned =>
        /\ Len(parts) >= 1
        /\ \A k \in 1..Len(parts) : parts[k].type \in {"text", "progress", "agent", "stat"}
        /\ (content = <<>> => parts = <<TextToken(<<>>)>>)

\* C4 witness: the parser has returned from the empty string
C4_Witness ==
    /\ Returned
    /\ content = <<>>
    /\ parts = <<TextToken(<<>>)>>

\* a tag-like substring whose attributes do not match: it starts with a
\* recognized tag name at i, ends with "/>" at e, and the pattern of its tag
\* matches nowhere in it
MalformedTagAt(s, i, e) ==
    /\ CombinedMatchEnd(s, i) = e
    /\ LET sub == Slice(s, i, e)
       IN  /\ ~ProgressExec(sub).found
           /\ ~AgentExec(sub).found
           /\ ~StatExec(sub).found

\* C2: a tag-like substring that starts with a recognized tag name and ends
\* with "/>" but whose attributes do not match the tag's pattern stays
\* literal text: it is found verbatim inside a text token of the result,
\* whatever surrounds it.
C2_MalformedTagKept ==
    Returned =>
        \A i \in TagStarts(content) : \A e \in (i + 1)..Len(content) :
            MalformedTagAt(content, i, e) =>
                \E k \in 1..Len(parts) :
                    /\ IsTextToken(parts[k])
                    /\ Contains(parts[k].content, Slice(content, i, e))

\* the input is one tag that its tag-specific pattern matches from the
\* first to the last character
OneWellFormedTag(s) ==
    /\ SpecificMatchAt(s, 0).found
    /\ SpecificMatchAt(s, 0).end = Len(s)

\* C3: an input that is exactly one well-formed widget tag parses to exactly
\* one token, the widget of that tag with its attributes and the defaults
\* 'red' and 'neutral', and to no text token.
C3_SingleTagSingleWidget ==
    (Returned /\ OneWellFormedTag(content)) => parts = <<TokenOfTag(content, 0)>>

\* every tag name of the input starts a tag its pattern matches, and no tag
\* name lies inside the tag of another
AllTagsWellFormed(s) ==
    \A i \in TagStarts(s) :
        /\ SpecificMatchAt(s, i).found
        /\ \A j \in TagStarts(s) : j > i => j >= SpecificMatchAt(s, i).end

\* the spans <<start, end>> of the well-formed tags of s
TagSpans(s) ==
    {<<i, SpecificMatchAt(s, i).end>> : i \in {j \in TagStarts(s) : SpecificMatchAt(s, j).found}}

\* the characters of s from index p on that are neither white space nor
\* inside one of the spans
RECURSIVE PlainChars(_, _, _)
PlainChars(s, spans, p) ==
    IF p >= Len(s) THEN <<>>
    ELSE (IF IsWs(s[p + 1]) \/ \E sp \in spans : sp[1] <= p /\ p < sp[2]
          THEN <<>> ELSE <<s[p + 1]>>)
         \o PlainChars(s, spans, p + 1)

\* the characters of the text tokens, in order, white space left out
RECURSIVE TextChars(_)
TextChars(ps) ==
    IF ps = <<>> THEN <<>>
    ELSE (IF IsTextToken(Head(ps))
          THEN SelectSeq(Head(ps).content, LAMBDA c : ~IsWs(c))
          ELSE <<>>)
         \o TextChars(Tail(ps))

WidgetCount(ps) == Cardinality({k \in 1..Len(ps) : ~IsTextToken(ps[k])})

\* C5: when every tag of the input is well-formed by its tag-specific
\* pattern, each tag yields exactly one widget token and the text tokens
\* hold the non-blank characters outside the tags, each once, in order.
C5_NothingLostNothingTwice ==
    (Returned /\ AllTagsWellFormed(content)) =>
        /\ WidgetCount(parts) = Cardinality(TagStarts(content))
        /\ TextChars(parts) = PlainChars(content, TagSpans(content), 0)

\* the least index from `from` on at which a well-formed tag starts, or -1
NextTag(s, from) ==
    LET starts == {i \in TagStarts(s) : i >= from /\ SpecificMatchAt(s, i).found}
    IN  IF starts = {} THEN -1 ELSE Min(starts)

\* the text token of a span: its trimmed content, when any is left
SpanTokens(span) ==
    IF Trim(span) = <<>> THEN <<>> ELSE <<TextToken(Trim(span))>>

\* widgets in the order of their positions, each span between them as one
\* trimmed text token
RECURSIVE InSourceOrder(_, _)
InSourceOrder(s, from) ==
    LET i == NextTag(s, from)
    IN  IF i = -1 THEN SpanTokens(Slice(s, from, Len(s)))
        ELSE SpanTokens(Slice(s, from, i)) \o <<TokenOfTag(s, i)>>
             \o InSourceOrder(s, SpecificMatchAt(s, i).end)

ScenarioATokens ==
    << TextToken(ScenarioAText1),
       [type |-> "progress", content |-> <<>>,
        props |-> [label |-> Exploit, value |-> 72, color |-> Red]],
       TextToken(ScenarioAText2),
       [type |-> "agent", content |-> <<>>, props |-> [name |-> Jett]],
       TextToken(ScenarioAText3) >>

\* C6, its example: scenario A parses to text, progress{Exploit,72,red},
\* text, agent{Jett}, text.
C6_ScenarioA ==
    (Returned /\ content = ScenarioA) => parts = ScenarioATokens

\* C6: for an input with widgets, the result lists the widgets in the order
\* of their positions, with one text token, the trimmed span, wherever the
\* span between two widgets (before the first, after the last) is not blank.
C6_SourceOrder ==
    /\ C6_ScenarioA
    /\ (Returned /\ NextTag(content, 0) # -1) => parts = InSourceOrder(content, 0)

Quoted(v) == <<"\"">> \o v \o <<"\"">>

\* a token re-serialized: a text token as its content, a widget as its tag
\* in canonical form
Serialize(tok) ==
    CASE tok.type = "progress" ->
            ProgressBarTag \o <<" ">> \o LabelAttr \o tok.props.label \o <<"\"", " ">>
            \o ValueAttr \o <<"{">> \o ToDigits(tok.props.value) \o <<"}", " ">>
            \o ColorAttr \o tok.props.color \o <<"\"", " ">> \o SelfClose
      [] tok.type = "agent" ->
            AgentIconTag \o <<" ">> \o NameAttr \o tok.props.name \o <<"\"", " ">>
            \o SelfClose
      [] tok.type = "stat" ->
            StatCardTag \o <<" ">> \o LabelAttr \o tok.props.label \o <<"\"", " ">>
            \o ValueQuotedAttr \o tok.props.value \o <<"\"", " ">>
            \o TrendAttr \o tok.props.trend \o <<"\"", " ">> \o SelfClose
      [] OTHER -> tok.content

RECURSIVE Reconstruction(_)
Reconstruction(ps) ==
    IF ps = <<>> THEN <<>> ELSE Serialize(Head(ps)) \o Reconstruction(Tail(ps))

\* the types and attributes of a token list
KindsAndAttributes(ps) ==
    [k \in 1..Len(ps) |->
        IF IsTextToken(ps[k]) THEN [type |-> "text"]
        ELSE [type |-> ps[k].type, props |-> ps[k].props]]

\* C7: parsing the reconstruction of a parse (text tokens as their content,
\* widgets as canonical tags, concatenated) gives the same sequence of token
\* types and attributes as the parse.
C7_RoundTrip ==
    Returned =>
        KindsAndAttributes(ParseMessageContent(Reconstruction(parts)))
            = KindsAndAttributes(parts)

\* C8: the value of every progress token is an integer in 0..100.
C8_ProgressValueInRange ==
    Returned =>
        \A k \in 1..Len(parts) :
            parts[k].type = "progress" => parts[k].props.value \in 0..100

\* C9: the color of every progress token and the trend of every stat token
\* are members of their enumerations, so the lookups of ProgressBar and
\* StatCard are defined.
C9_EnumAttributes ==
    /\ Returned =>
        \A k \in 1..Len(parts) :
            /\ parts[k].type = "progress" => parts[k].props.color \in ColorSchemeKeys
            /\ parts[k].type = "stat" => parts[k].props.trend \in TrendColorKeys
    /\ pc = "rendered" =>
        \A k \in 1..Len(rendered) : rendered[k].widget # "TypeError"

-----------------------------------------------------------------------------
(* Properties of useTypewriter, under SpecTypewriter *)

\* text.slice(0, n)
Prefix(t, n) == Slice(t, 0, n)

\* animation is enabled, the effect has run, and nothing has cancelled the
\* reveal since the first render (no change of props, no unmount)
RevealUncancelled == enabled /\ phase = "settled" /\ changes = 0

-----------------------------------------------------------------------------
(* Properties of useTypewriter, under SpecTypewriter and, for those that   *)
(* say what eventually happens, SpecTypewriterFair                         *)

\* animation is enabled and nothing has cancelled the reveal since the first
\* render, whether or not the first effect has run yet
RevealRunning == enabled /\ phase \in {"pending", "settled"} /\ changes = 0

\* the reveal has ended: the full text is displayed and the interval is cleared
RevealDone == isComplete /\ displayedText = text /\ timer = "cleared"

\* C11: for every text with animation enabled, as long as the effect runs
\* and the interval keeps firing, a reveal that is not cancelled reaches
\* isComplete = true with the full text displayed and the interval cleared;
\* from then on no callback fires: nothing of the hook's state changes while
\* the reveal stays uncancelled.
C11_RevealTerminates ==
    /\ RevealRunning ~> (RevealDone \/ ~RevealRunning)
    /\ [](RevealRunning /\ isComplete => RevealDone)
    /\ [][(RevealRunning /\ isComplete /\ RevealRunning')
            => UNCHANGED <<displayedText, isComplete, currentIndex, timer, shown>>]_vars

\* C11 witness: an uncancelled reveal of a text of MaxTextLen characters has
\* ended after MaxTextLen reveals, interval cleared
C11_Witness ==
    /\ RevealRunning
    /\ RevealDone
    /\ Len(text) = MaxTextLen
    /\ currentIndex = MaxTextLen

\* an enabled typewriter whose effect has run for the current props
EnabledSettled == enabled /\ phase = "settled"

LastCharacterShown ==
    /\ displayedText = text
    /\ currentIndex = Len(text)
    /\ ~isComplete
    /\ timer = "active"

Restarted == interrupted /\ enabled /\ phase = "settled"

\* C14: when the text of an enabled typewriter changes in mid-reveal, the
\* effect for the new text resets displayedText to '', isComplete to false
\* and the index to 0; from then on the displayed string is the prefix of
\* the new text at the index, it only grows, and (the interval firing, no
\* further cancellation) the reveal completes with the new text in full.
C14_RestartForNewText ==
    /\ [][(interrupted /\ enabled /\ phase = "pending" /\ phase' = "settled")
            => (displayedText' = <<>> /\ ~isComplete' /\ currentIndex' = 0)]_vars
    /\ [](Restarted =>
            /\ effectText = text
            /\ currentIndex <= Len(text)
            /\ displayedText = Prefix(text, currentIndex)
            /\ isComplete => displayedText = text)
    /\ [][(Restarted /\ Restarted') => Len(displayedText') >= Len(displayedText)]_vars
    /\ Restarted ~> ((isComplete /\ displayedText = text) \/ ~Restarted)

\* C14 witness: a reveal restarted for a new text of MaxTextLen characters
\* has completed with it
C14_Witness ==
    /\ Restarted
    /\ isComplete
    /\ displayedText = text
    /\ Len(text) = MaxTextLen

-----------------------------------------------------------------------------
(* Properties of the text tokens of a bubble, under SpecTextToken and      *)
(* SpecChat                                                                *)

\* the text tokens on display, as <<message, token>>
Tokens == {ik \in {<<i, k>> : i \in 1..Len(bubbles), k \in 1..2} : ik[2] <= Len(bubbles[ik[1]])}

TokenAt(ik) == bubbles[ik[1]][ik[2]]

AloneState(b) ==
    /\ b.timer \in {"active", "cleared"}
    /\ b.currentIndex <= Len(b.text)
    /\ b.displayedText = Prefix(b.text, b.currentIndex)
    /\ b.isComplete <=> b.timer = "cleared"
    /\ b.isComplete => b.currentIndex = Len(b.text)

\* token ik made one step of its reveal
OneReveal(ik) ==
    LET b == TokenAt(ik)
        c == bubbles'[ik[1]][ik[2]]
    IN  /\ b.timer = "active"
        /\ c.text = b.text
        /\ IF b.currentIndex < Len(b.text)
           THEN c.currentIndex = b.currentIndex + 1 /\ c.timer = "active"
           ELSE c.currentIndex = b.currentIndex /\ c.timer = "cleared"

\* C16: every animated text token has its own interval and its own state:
\* a callback of an interval changes the index, the displayed string and
\* isComplete of one token, by one step of that token's reveal, and leaves
\* every other token as it was; so each token passes through the states it
\* would pass through alone.
C16_TimersIndependent ==
    /\ [](\A ik \in Tokens : TokenAt(ik).animated => AloneState(TokenAt(ik)))
    /\ [][TickToken =>
            \E ik \in Tokens :
                /\ OneReveal(ik)
                /\ Len(bubbles') = Len(bubbles)
                /\ \A jl \in Tokens : jl # ik => bubbles'[jl[1]][jl[2]] = TokenAt(jl)]_vars

\* C16 witness: of the two text tokens of one message the first has
\* completed while the second has not started
C16_Witness ==
    \E i \in 1..Len(bubbles) :
        /\ Len(bubbles[i]) = 2
        /\ bubbles[i][1].animated /\ bubbles[i][1].isComplete
        /\ bubbles[i][2].animated /\ bubbles[i][2].timer = "active"
        /\ bubbles[i][2].currentIndex = 0

\* C17: a token whose reveal has completed is never again on display in
\* part, as long as its message stays in the store.
C17_CompleteIsTerminal ==
    \A ik \in revealed :
        ik \in Tokens => TokenAt(ik).displayedText = TokenAt(ik).text

\* the assistant messages flagged isNew
FreshAssistants ==
    {i \in 1..Len(messages) : messages[i].role = "assistant" /\ messages[i].isNew}

\* C18: at most one assistant message is flagged isNew, and it is the last
\* assistant message of the store.
C18_OneFreshAssistant ==
    /\ Cardinality(FreshAssistants) <= 1
    /\ \A i \in FreshAssistants :
        \A j \in (i + 1)..Len(messages) : messages[j].role # "assistant"

\* C19: no two messages of the store have the same id.
C19_UniqueIds ==
    \A i, j \in 1..Len(messages) : i # j => messages[i].id # messages[j].id

\* the messages of the store are still there, in their places, with their
\* id, role, content and timestamp
KeptInPlace ==
    /\ Len(messages') >= Len(messages)
    /\ \A k \in 1..Len(messages) :
        messages'[k] = [messages[k] EXCEPT !.isNew = messages'[k].isNew]

\* C20: clearContext and the team selection empty the store; every other
\* step keeps the messages of the store in their places with their id,
\* role, content and timestamp, adds at the end only, and changes of an
\* existing message nothing but isNew.
C20_AppendOnly ==
    /\ [][(ClearContext \/ SelectTeam) => messages' = <<>>]_vars
    /\ [][~(ClearContext \/ SelectTeam) => KeptInPlace]_vars

\* C20 witness: a full store: the welcome message and an earlier reply have
\* lost isNew, the messages sent and received since follow them in order
C20_Witness ==
    /\ Len(messages) = MaxMessages
    /\ messages[1].id = WelcomeId
    /\ ~messages[1].isNew
    /\ messages[2].role = "user"
    /\ messages[3].role = "assistant" /\ ~messages[3].isNew
    /\ messages[MaxMessages].role = "user"

-----------------------------------------------------------------------------
\* sendMessage after the request: the catch block and the finally block

\* the store after the step is the store before it with one message appended
OneAppended(after, before) ==
    /\ Len(after) = Len(before) + 1
    /\ SubSeq(after, 1, Len(before)) = before

\* C21: when the request fails, sendMessage appends exactly one assistant
\* message with the fixed transmission-error text, starts no request of its
\* own and sets isLoading to false; when it succeeds isLoading ends false as
\* well; after either path a send with a text is not refused
C21_ErrorPath ==
    [][/\ ErrorArrives =>
            /\ OneAppended(messages', messages)
            /\ messages'[Len(messages')].role = "assistant"
            /\ messages'[Len(messages')].content = ErrorText
            /\ fetchState' = "idle"
            /\ requestBody' = NoRequest
            /\ ~isLoading'
            /\ \A txt \in UserTexts : ~SendRejected(txt, isLoading')
       /\ ResponseArrives =>
            /\ ~isLoading'
            /\ \A txt \in UserTexts : ~SendRejected(txt, isLoading')]_vars

\* a request failed, its error message is in the store, and the user has
\* sent another message after it
C21_Witness ==
    \E i \in 1..Len(messages) :
        /\ messages[i].role = "assistant"
        /\ messages[i].content = ErrorText
        /\ i < Len(messages)
        /\ messages[i + 1].role = "user"
        /\ fetchState = "pending"

-----------------------------------------------------------------------------
\* AgentIcon

\* the agents the table knows
KnownAgents == {KeyJett, KeyReyna, KeySage, KeySova, KeyOmen}

\* C22: the lookup is case-insensitive and total: a name that is, in lower
\* case, one of the five known agents gets the glyph of that agent, every
\* other name gets the fallback glyph, and nothing else is ever rendered
C22_LookupTotal ==
    icon \notin {NoIcon, "unrendered"} =>
        icon = IF ToLowerCase(name) \in KnownAgents
               THEN agentIcons[ToLowerCase(name)]
               ELSE agentIcons[KeyDefault]

-----------------------------------------------------------------------------
\* The pages that fetch

\* what ReportContent and VersusPageContent render
FetchPageView ==
    IF loading THEN "loading"
    ELSE IF data = NoData THEN "error"
    ELSE IF data.source = "mock" THEN "fallback"
    ELSE "data"

\* what ReportPage renders
ReportPageView ==
    IF state = "INPUT" THEN (IF loadingError # NoError THEN "error" ELSE "input")
    ELSE IF state = "LOADING" THEN "loading"
    ELSE IF report.present THEN "data"
    ELSE "blank"

\* C23: a report or versus request that ends in an error or a non-200
\* response leaves its page not loading and showing the static fallback
\* data or an error message
C23_FailureIsShown ==
    [][/\ (ReportFetchFailed \/ VersusFetchFailed) => FetchPageView' \in {"fallback", "error"}
       /\ GenerationFails => ReportPageView' = "error"]_vars

\* a generation of ReportPage has failed and the page shows the message
C23_Witness ==
    /\ page = "ReportPage"
    /\ latest > 0
    /\ inflight = {}
    /\ dataFrom = 0
    /\ ReportPageView = "error"

\* C25: ReportPage is in RESULT only with the report of the generation in
\* progress: never while the request of the latest generation is pending or
\* has failed
C25_ResultOfLatestGeneration ==
    page = "ReportPage" /\ state = "RESULT" => dataFrom = latest

\* the URL names the teams, no request is awaited and no effect is due
FetchSettled ==
    /\ page \in {"ReportContent", "Versus"}
    /\ \A k \in 1..Len(EffectDeps(page, searchParams)) :
            EffectDeps(page, searchParams)[k] \notin {NoParam, ""}
    /\ ~effectDue
    /\ inflight = {}

\* C30: on the report and versus pages the latest request wins: once every
\* response has arrived, the data shown is the result or the fallback of the
\* request for the most recent parameters
C30_LatestRequestWins ==
    FetchSettled => dataFrom = latest

\* C24: the mapping of startGeneration is deterministic: runs on the same
\* response give the same team_stats, correlations and weaknesses and the same
\* roster, and without roster_intel the roster is a non-empty list
C24_MappingDeterministic ==
    /\ \A i, j \in 1..Len(mapped) :
        /\ mapped[i].report.team_stats = mapped[j].report.team_stats
        /\ mapped[i].report.correlations = mapped[j].report.correlations
        /\ mapped[i].report.weaknesses = mapped[j].report.weaknesses
        /\ mapped[i].roster = mapped[j].roster
    /\ \A i \in 1..Len(mapped) : Len(mapped[i].roster) > 0

\* C29: the exploitability score is the inverse of the series win rate: for
\* every series_win_rate w in 0..100, 0 included, it is round(100 - w), a
\* number in 0..100
C29_ExploitabilityIsInverse ==
    \A i \in 1..Len(mapped) :
        response.stats.present /\ response.stats.series_win_rate \in 0..100 =>
            /\ mapped[i].report.exploitability_score
                    = 100 - response.stats.series_win_rate
            /\ mapped[i].report.exploitability_score \in 0..100

-----------------------------------------------------------------------------
\* sendMessage: its guard, the request it builds

\* the step builds a request
RequestBuilt == requestBody' # NoRequest /\ requestBody' # requestBody

\* C26: at most one chat request is in flight: a request is built only by a
\* send that finds isLoading false and has a text that is not blank; that send
\* sets isLoading, empties the input and appends exactly one user message, the
\* text; while a request is awaited isLoading is true
C26_SingleRequest ==
    [][/\ (SendMessage \/ RequestBuilt) =>
            /\ ~isLoading
            /\ fetchState = "idle"
            /\ requestBody = NoRequest
            /\ requestBody'.message # <<>>
            /\ requestBody'.message \in UserTexts \cup {Trim(inputValue)}
            /\ isLoading'
            /\ inputValue' = <<>>
            /\ OneAppended(messages', MarkOld(messages))
            /\ messages'[Len(messages')].role = "user"
            /\ messages'[Len(messages')].content = requestBody'.message
       /\ fetchState' = "pending" => isLoading'
       /\ (isLoading /\ isLoading') =>
            /\ requestBody' = requestBody
            /\ inputValue' = inputValue
            /\ \A i \in 1..Len(messages') : messages'[i].role = "user" =>
                   i <= Len(messages) /\ messages'[i] = messages[i]]_vars

\* the first message of the user has been sent: the request is awaited, the
\* flag is set, the input is empty
C26_Witness ==
    /\ fetchState = "pending"
    /\ isLoading
    /\ inputValue = <<>>
    /\ Len(messages) = 2
    /\ messages[2].role = "user"
    /\ requestBody.message = messages[2].content

\* C27: a response does not outlive its conversation: every assistant
\* message other than the welcome message comes right after the user
\* message it answers
C27_AnswerFollowsQuestion ==
    \A i \in 1..Len(messages) :
        (messages[i].role = "assistant" /\ messages[i].id # WelcomeId) =>
            i > 1 /\ messages[i - 1].role = "user"

\* C28: the history of a request is made of the role and the content of the
\* last messages the store held before the user message was appended, at
\* most 6, in the order of the store; the message being sent is appended
\* after them and is not among them
C28_HistoryIsRecent ==
    [][RequestBuilt =>
        LET h == requestBody'.history
            n == Len(messages)
        IN  /\ Len(h) = (IF n > 6 THEN 6 ELSE n)
            /\ \A k \in 1..Len(h) :
                h[k] = [role |-> messages[n - Len(h) + k].role,
                        content |-> messages[n - Len(h) + k].content]
            /\ Len(messages') = n + 1
            /\ \A k \in 1..Len(h) :
                   h[k].content = messages'[n - Len(h) + k].content]_vars

\* a message was sent from a store of more than six messages: the history
\* holds six of them and starts after the welcome message
C28_Witness ==
    /\ requestBody # NoRequest
    /\ Len(messages) > 7
    /\ Len(requestBody.history) = 6
    /\ requestBody.history[1].role = messages[Len(messages) - 6].role
    /\ messages[Len(messages)].role = "user"

=============================================================================
